---------------------------- MODULE Spec2Model ----------------------------
(***************************************************************************)
(* A model of mcp-server-acube: the authenticated A-Cube HTTP client       *)
(* (src/src/client.ts) and the response-shaping helpers                    *)
(* (src/src/response.ts, src/src/tools/invoices.ts).                       *)
(*                                                                         *)
(* Time is counted in hours: Date.now() is `now`, and the 23 h refresh     *)
(* window of client.ts line 93 is TTL.  The client code only adds TTL to   *)
(* the clock and compares the clock with the sum, so the unit is not       *)
(* observable.                                                             *)
(***************************************************************************)
EXTENDS Integers, Sequences, FiniteSets, TLC

(***************************************************************************)
(* JavaScript values, as a tagged union.  An object is an ordered list of  *)
(* <<key, value>> pairs (insertion order, keys distinct).                  *)
(***************************************************************************)
Undefined == [t |-> "undefined"]
Null      == [t |-> "null"]
Str(s)    == [t |-> "string", v |-> s]
Num(n)    == [t |-> "number", v |-> n]
Bool(b)   == [t |-> "boolean", v |-> b]
Obj(kvs)  == [t |-> "object", v |-> kvs]
Arr(xs)   == [t |-> "array", v |-> xs]

\* ToBoolean: the falsy values are undefined, null, "", 0 and false.
Truthy(x) ==
  CASE x.t = "undefined" -> FALSE
    [] x.t = "null"      -> FALSE
    [] x.t = "string"    -> x.v # ""
    [] x.t = "number"    -> x.v # 0
    [] x.t = "boolean"   -> x.v
    [] OTHER             -> TRUE

\* ToString of a primitive, as a template literal `${x}` or String(x) gives it.
ToStr(x) ==
  CASE x.t = "undefined" -> "undefined"
    [] x.t = "null"      -> "null"
    [] x.t = "string"    -> x.v
    [] x.t = "number"    -> ToString(x.v)
    [] x.t = "boolean"   -> (IF x.v THEN "true" ELSE "false")
    [] OTHER             -> "[object Object]"

\* The characters of a string as JSON writes them between the quotes: a
\* quote and a backslash are escaped (no other character of the model is).
RECURSIVE Escaped(_)
Escaped(s) ==
  IF Len(s) = 0 THEN ""
  ELSE IF Len(s) = 1 THEN (IF s \in {"\"", "\\"} THEN "\\" ELSE "") \o s
  ELSE Escaped(SubSeq(s, 1, Len(s) \div 2))
         \o Escaped(SubSeq(s, Len(s) \div 2 + 1, Len(s)))

RECURSIVE JSONstringify(_)
RECURSIVE JoinMembers(_, _)
RECURSIVE JoinElements(_, _)

\* The members of an object, comma separated; a member whose value is
\* undefined is left out.
JoinMembers(kvs, first) ==
  IF kvs = <<>> THEN ""
  ELSE IF Head(kvs)[2].t = "undefined" THEN JoinMembers(Tail(kvs), first)
  ELSE (IF first THEN "" ELSE ",")
         \o "\"" \o Head(kvs)[1] \o "\":" \o JSONstringify(Head(kvs)[2])
         \o JoinMembers(Tail(kvs), FALSE)

\* The elements of an array, comma separated; an undefined slot reads null.
JoinElements(xs, first) ==
  IF xs = <<>> THEN ""
  ELSE (IF first THEN "" ELSE ",")
         \o (IF Head(xs).t = "undefined" THEN "null" ELSE JSONstringify(Head(xs)))
         \o JoinElements(Tail(xs), FALSE)

\* JSON.stringify without indentation (of a value that is not undefined).
JSONstringify(x) ==
  CASE x.t = "null"    -> "null"
    [] x.t = "string"  -> "\"" \o Escaped(x.v) \o "\""
    [] x.t = "number"  -> ToString(x.v)
    [] x.t = "boolean" -> (IF x.v THEN "true" ELSE "false")
    [] x.t = "array"   -> "[" \o JoinElements(x.v, TRUE) \o "]"
    [] x.t = "object"  -> "{" \o JoinMembers(x.v, TRUE) \o "}"
    [] OTHER           -> "undefined"

\* dati_generali_documento of a FatturaPA document, whole and in part.
DocumentData ==
  { Obj(<< <<"numero", Str("2026/1")>>, <<"data", Str("2026-01-15")>>,
           <<"importo_totale_documento", Num(500)>>, <<"divisa", Str("EUR")>> >>),
    Obj(<< <<"numero", Str("2026/1")>>, <<"divisa", Str("")>> >>),
    Obj(<<>>),
    Str("numero") }

\* The documents a payload string encodes: a FatturaPA document down to
\* dati_generali_documento, and documents that end earlier on that chain.
PayloadDocs ==
  { Obj(<< <<"fattura_elettronica_body",
             Arr(<< Obj(<< <<"dati_generali",
                             Obj(<< <<"dati_generali_documento", d>> >>)>> >>) >>)>> >>) :
      d \in DocumentData }
  \cup
  { Obj(<< <<"fattura_elettronica_body", b>> >>) :
      b \in { Arr(<<>>),
              Arr(<< Obj(<<>>) >>),
              Arr(<< Obj(<< <<"dati_generali", Obj(<<>>)>> >>) >>),
              Arr(<< Num(1) >>),
              Str("x"),
              Obj(<<>>) } }
  \cup
  { Arr(<<>>), Str("x") }

\* The JSON documents whose texts occur in the model.
JsonDocs ==
  { Obj(<< <<"a", Num(1)>> >>),
    Obj(<< <<"token", Str("tok-A")>> >>),
    Obj(<< <<"token", Str("tok-B")>> >>),
    Obj(<<>>),
    Num(7) }
  \cup PayloadDocs

\* JSON.parse: sound on the texts of the model (the serializations of
\* JsonDocs parse to the document, every other text of the model is not JSON).
JsonTexts == [d \in JsonDocs |-> JSONstringify(d)]
JSONparses(text) == \E d \in JsonDocs : JsonTexts[d] = text
JSONparse(text)  == CHOOSE d \in JsonDocs : JsonTexts[d] = text

(***************************************************************************)
(* Buffer.from(raw).toString("base64"): RFC 4648 with padding.             *)
(***************************************************************************)
B64 ==
  << "A","B","C","D","E","F","G","H","I","J","K","L","M","N","O","P",
     "Q","R","S","T","U","V","W","X","Y","Z","a","b","c","d","e","f",
     "g","h","i","j","k","l","m","n","o","p","q","r","s","t","u","v",
     "w","x","y","z","0","1","2","3","4","5","6","7","8","9","+","/" >>

\* base64 without the padding of the last group.
RECURSIVE Base64_NoPad(_)
Base64_NoPad(bytes) ==
  IF Len(bytes) = 0 THEN ""
  ELSE IF Len(bytes) = 1 THEN
    B64[(bytes[1] \div 4) + 1] \o B64[((bytes[1] % 4) * 16) + 1]
  ELSE IF Len(bytes) = 2 THEN
    B64[(bytes[1] \div 4) + 1]
      \o B64[((bytes[1] % 4) * 16 + (bytes[2] \div 16)) + 1]
      \o B64[((bytes[2] % 16) * 4) + 1]
  ELSE
    B64[(bytes[1] \div 4) + 1]
      \o B64[((bytes[1] % 4) * 16 + (bytes[2] \div 16)) + 1]
      \o B64[((bytes[2] % 16) * 4 + (bytes[3] \div 64)) + 1]
      \o B64[(bytes[3] % 64) + 1]
      \o Base64_NoPad(SubSeq(bytes, 4, Len(bytes)))

RECURSIVE Base64(_)
Base64(bytes) ==
  IF Len(bytes) = 0 THEN ""
  ELSE IF Len(bytes) = 1 THEN
    B64[(bytes[1] \div 4) + 1] \o B64[((bytes[1] % 4) * 16) + 1] \o "=="
  ELSE IF Len(bytes) = 2 THEN
    B64[(bytes[1] \div 4) + 1]
      \o B64[((bytes[1] % 4) * 16 + (bytes[2] \div 16)) + 1]
      \o B64[((bytes[2] % 16) * 4) + 1] \o "="
  ELSE
    B64[(bytes[1] \div 4) + 1]
      \o B64[((bytes[1] % 4) * 16 + (bytes[2] \div 16)) + 1]
      \o B64[((bytes[2] % 16) * 4 + (bytes[3] \div 64)) + 1]
      \o B64[(bytes[3] % 64) + 1]
      \o Base64(SubSeq(bytes, 4, Len(bytes)))


\* record[key] of a parsed JSON document: undefined when the key is absent
\* (or the document is a primitive).
GetProp(x, key) ==
  IF x.t = "object" /\ \E i \in 1..Len(x.v) : x.v[i][1] = key
  THEN x.v[CHOOSE i \in 1..Len(x.v) : x.v[i][1] = key][2]
  ELSE Undefined

(***************************************************************************)
(* The A-Cube client.                                                      *)
(***************************************************************************)
\* 23 * 60 * 60 * 1000 ms, in hours.
TTL == 23

\* The clock stops at MaxNow.
MaxNow == 23

\* The caller's slots: at most two invocations of request() are in flight.
Reqs == {"r1", "r2"}

BASE_URLS ==
  [ production |-> [ common |-> "https://common.api.acubeapi.com",
                     govIt  |-> "https://api.acubeapi.com" ],
    sandbox    |-> [ common |-> "https://common-sandbox.api.acubeapi.com",
                     govIt  |-> "https://api-sandbox.acubeapi.com" ] ]

Environments == {"production", "sandbox"}
Services     == {"common", "govIt"}

\* The credentials of the configuration, as login() serializes them.
Credentials ==
  Obj(<< <<"email", Str("test@test.com")>>, <<"password", Str("testpass")>> >>)

VARIABLES
  env,            \* config.environment
  now,            \* Date.now()
  token,          \* this.token
  tokenExpiresAt, \* this.tokenExpiresAt
  pc,             \* where each invocation of request() is suspended
  opts,           \* its arguments, defaults applied
  tok,            \* its local `token`
  wire,           \* the fetch call it made last
  outcome,        \* how it settled
  nLogin,         \* login fetch calls it made
  nFetch,         \* resource fetch calls it made
  atStart,        \* the clock, the last successful login and the options
                  \* it was given, when it started
  loginRet,       \* what its own login returned, and when
  lastLogin       \* the last successful login: completion time and token

\* A call of one of the response helpers or of a tool handler (response.ts,
\* tools/invoices.ts).
VARIABLES
  op,             \* the function that was called ("none": not yet)
  input,          \* its `data` argument, as the call left it
  paths,          \* its `fields` argument
  before,         \* its `data` argument, as it was passed
  ret             \* what it returned

shapeVars == << op, input, paths, before, ret >>

clientVars == << env, now, token, tokenExpiresAt, pc, opts, tok, wire, outcome,
                 nLogin, nFetch, atStart, loginRet, lastLogin >>

vars == << clientVars, shapeVars >>

NoOpts    == [method |-> "", path |-> "", service |-> "", body |-> Undefined,
              headers |-> <<>>, accept |-> ""]
NoWire    == [kind |-> "none"]
NoOutcome == [kind |-> "none"]
NoLogin   == [at |-> -1, tok |-> Undefined]
NoStart   == [t |-> -1, login |-> NoLogin, given |-> Undefined]

\* getBaseUrl with the two services exchanged.
getBaseUrl_Swapped(service) ==
  BASE_URLS[env][IF service = "common" THEN "govIt" ELSE "common"]

getBaseUrl(service) == BASE_URLS[env][service]

\* The value of a destructured option: its default when it is undefined.
Default(x, d) == IF x = Undefined THEN d ELSE x

\* A header map is a function from header names to strings.
NoHeaders == [h \in {} |-> ""]
HeaderGet(headers, name) ==
  IF name \in DOMAIN headers THEN Str(headers[name]) ELSE Undefined

\* { ...extraHeaders, Authorization, Accept }: the computed headers win.
BuildHeaders_SpreadFirst(t, accept, extraHeaders) ==
  ("Authorization" :> ("Bearer " \o ToStr(t)) @@ "Accept" :> accept) @@ extraHeaders

\* The headers with Accept fixed to application/json, whatever the accept
\* option is.
BuildHeaders_JsonAccept(t, accept, extraHeaders) ==
  extraHeaders @@ ("Authorization" :> ("Bearer " \o ToStr(t))
                     @@ "Accept" :> "application/json")

\* { Authorization, Accept, ...extraHeaders }: the spread comes last and wins.
BuildHeaders(t, accept, extraHeaders) ==
  extraHeaders @@ ("Authorization" :> ("Bearer " \o ToStr(t)) @@ "Accept" :> accept)

\* if (body && !headers["Content-Type"]) headers["Content-Type"] = ...
WithContentType(headers, body) ==
  IF Truthy(body) /\ ~Truthy(HeaderGet(headers, "Content-Type"))
  THEN ("Content-Type" :> "application/json") @@ headers
  ELSE headers

\* fetchOptions.body: set only for a truthy body.
FetchBody(body) ==
  IF Truthy(body)
  THEN (IF body.t = "string" THEN body ELSE Str(JSONstringify(body)))
  ELSE Undefined

\* The fetch call of login().
LoginCall ==
  [ kind    |-> "login",
    url     |-> getBaseUrl("common") \o "/login",
    method  |-> "POST",
    headers |-> ("Content-Type" :> "application/json"),
    body    |-> Str(JSONstringify(Credentials)) ]

\* The fetch call of request(), once the token is known.
ResourceCall(o, t) ==
  [ kind    |-> "resource",
    url     |-> getBaseUrl(o.service) \o o.path,
    method  |-> o.method,
    headers |-> WithContentType(BuildHeaders(t, o.accept, o.headers), o.body),
    body    |-> FetchBody(o.body) ]

\* getToken() refreshing an hour early.
TokenIsFresh_Early == Truthy(token) /\ now + 1 < tokenExpiresAt

\* getToken() without the expiry test.
TokenIsFresh_NoExpiry == Truthy(token)

\* getToken() taking the cached token at its expiry too (<= for <).
TokenIsFresh_AtExpiry == Truthy(token) /\ now <= tokenExpiresAt

\* getToken() testing the cached token against null, not for truthiness.
TokenIsFresh_NotNull == token # Null /\ now < tokenExpiresAt

\* getToken(): the cached token is used when it is truthy and not expired.
TokenIsFresh == Truthy(token) /\ now < tokenExpiresAt

\* No helper has been called.
NoCall ==
  /\ op = "none"
  /\ input = Undefined
  /\ paths = Undefined
  /\ before = Undefined
  /\ ret = Undefined

\* The client after its construction.
Constructed ==
  /\ env \in Environments
  /\ now = 0
  /\ token = Null
  /\ tokenExpiresAt = 0
  /\ pc = [r \in Reqs |-> "idle"]
  /\ opts = [r \in Reqs |-> NoOpts]
  /\ tok = [r \in Reqs |-> Undefined]
  /\ wire = [r \in Reqs |-> NoWire]
  /\ outcome = [r \in Reqs |-> NoOutcome]
  /\ nLogin = [r \in Reqs |-> 0]
  /\ nFetch = [r \in Reqs |-> 0]
  /\ atStart = [r \in Reqs |-> NoStart]
  /\ loginRet = [r \in Reqs |-> NoLogin]
  /\ lastLogin = NoLogin

Init == Constructed /\ NoCall

\* request(method, path, options) up to its first suspension: the options
\* are destructured and getToken() either returns the cached token or calls
\* login(), which dispatches the login fetch.
request(r, method, path, options) ==
  /\ pc[r] = "idle"
  /\ opts' = [opts EXCEPT ![r] =
       [ method  |-> method,
         path    |-> path,
         service |-> ToStr(Default(options.service, Str("govIt"))),
         body    |-> options.body,
         headers |-> Default(options.headers, NoHeaders),
         accept  |-> ToStr(Default(options.accept, Str("application/json"))) ]]
  /\ atStart' = [atStart EXCEPT ![r] =
       [t |-> now, login |-> lastLogin, given |-> options]]
  /\ outcome' = [outcome EXCEPT ![r] = NoOutcome]
  /\ loginRet' = [loginRet EXCEPT ![r] = NoLogin]
  /\ nFetch' = [nFetch EXCEPT ![r] = 0]
  /\ IF TokenIsFresh
     THEN /\ tok' = [tok EXCEPT ![r] = token]
          /\ pc' = [pc EXCEPT ![r] = "ready"]
          /\ nLogin' = [nLogin EXCEPT ![r] = 0]
          /\ wire' = [wire EXCEPT ![r] = NoWire]
     ELSE /\ tok' = [tok EXCEPT ![r] = Undefined]
          /\ pc' = [pc EXCEPT ![r] = "login"]
          /\ nLogin' = [nLogin EXCEPT ![r] = 1]
          /\ wire' = [wire EXCEPT ![r] = LoginCall]
  /\ UNCHANGED << env, now, token, tokenExpiresAt, lastLogin, shapeVars >>

\* What settles an invocation; the frame's locals are gone with it.
Settle(r, result) ==
  /\ pc' = [pc EXCEPT ![r] = "done"]
  /\ outcome' = [outcome EXCEPT ![r] = result]
  /\ opts' = [opts EXCEPT ![r] = NoOpts]
  /\ tok' = [tok EXCEPT ![r] = Undefined]
  /\ wire' = [wire EXCEPT ![r] = NoWire]
  /\ atStart' = [atStart EXCEPT ![r] = NoStart]
  /\ loginRet' = [loginRet EXCEPT ![r] = NoLogin]

\* throw new Error(message), or an exception of the runtime.
Thrown(name, message, accept, resp) ==
  [kind |-> "error", name |-> name, message |-> message,
   accept |-> accept, resp |-> resp]

\* return { status, data, raw? }
Returned(status, data, raw, accept, resp) ==
  [kind |-> "ok", status |-> status, data |-> data, raw |-> raw,
   accept |-> accept, resp |-> resp]

\* A fetch that rejects (DNS, connection): the TypeError propagates unchanged.
\* `of` names the call a response answers.
Rejected(of) == [kind |-> "reject", of |-> of]

\* The login responses of the model: 200 with a JSON body that carries a
\* token, 200 with a JSON body without one, 200 with a body that is not
\* JSON, 401 and 500.
LoginResponses ==
  { [kind |-> "response", of |-> "login", ok |-> TRUE, status |-> 200, text |-> b] :
      b \in { "{\"token\":\"tok-A\"}", "{\"token\":\"tok-B\"}", "{}", "fo" } }
  \cup
  { [kind |-> "response", of |-> "login", ok |-> FALSE, status |-> st,
     text |-> "Invalid credentials"] : st \in {401, 500} }

\* The login error without the status code.
LoginError_NoStatus(resp) == "Acube login failed: " \o resp.text

LoginError(resp) ==
  "Acube login failed (" \o ToString(resp.status) \o "): " \o resp.text

\* login() setting the expiry before it reads the body: a body that is not
\* JSON leaves a new expiry with the old token.
login_ExpiryFirst(r, resp) ==
  /\ pc[r] = "login"
  /\ IF resp.kind = "reject"
     THEN /\ Settle(r, Thrown("TypeError", "fetch failed", opts[r].accept, resp))
          /\ UNCHANGED << token, tokenExpiresAt, lastLogin >>
     ELSE IF ~resp.ok
     THEN /\ Settle(r, Thrown("Error", LoginError(resp), opts[r].accept, resp))
          /\ UNCHANGED << token, tokenExpiresAt, lastLogin >>
     ELSE IF ~JSONparses(resp.text)
     THEN /\ Settle(r, Thrown("SyntaxError", "Unexpected token in JSON",
                 opts[r].accept, resp))
          /\ tokenExpiresAt' = now + TTL
          /\ UNCHANGED << token, lastLogin >>
     ELSE LET data == JSONparse(resp.text) IN
          /\ token' = GetProp(data, "token")
          /\ tokenExpiresAt' = now + TTL
          /\ tok' = [tok EXCEPT ![r] = token']
          /\ pc' = [pc EXCEPT ![r] = "ready"]
          /\ lastLogin' = [at |-> now, tok |-> GetProp(data, "token")]
          /\ loginRet' = [loginRet EXCEPT ![r] = lastLogin']
          /\ UNCHANGED << opts, wire, outcome, atStart >>
  /\ UNCHANGED << env, now, nLogin, nFetch, shapeVars >>

\* login() from the settling of its fetch to its return, and getToken()'s
\* and request()'s resumption with the token.
login(r, resp) ==
  /\ pc[r] = "login"
  /\ IF resp.kind = "reject"
     THEN /\ Settle(r, Thrown("TypeError", "fetch failed", opts[r].accept, resp))
          /\ UNCHANGED << token, tokenExpiresAt, lastLogin >>
     ELSE IF ~resp.ok
     THEN /\ Settle(r, Thrown("Error", LoginError(resp), opts[r].accept, resp))
          /\ UNCHANGED << token, tokenExpiresAt, lastLogin >>
     ELSE IF ~JSONparses(resp.text)
     THEN /\ Settle(r, Thrown("SyntaxError", "Unexpected token in JSON",
                 opts[r].accept, resp))
          /\ UNCHANGED << token, tokenExpiresAt, lastLogin >>
     ELSE LET data == JSONparse(resp.text) IN
          /\ token' = GetProp(data, "token")
          /\ tokenExpiresAt' = now + TTL
          /\ tok' = [tok EXCEPT ![r] = token']
          /\ pc' = [pc EXCEPT ![r] = "ready"]
          /\ lastLogin' = [at |-> now, tok |-> GetProp(data, "token")]
          /\ loginRet' = [loginRet EXCEPT ![r] = lastLogin']
          /\ UNCHANGED << opts, wire, outcome, atStart >>
  /\ UNCHANGED << env, now, nLogin, nFetch, shapeVars >>

\* request() building Authorization from the cache (this.token) at dispatch,
\* not from the token getToken() gave it.
dispatch_CachedToken(r) ==
  /\ pc[r] = "ready"
  /\ wire' = [wire EXCEPT ![r] = ResourceCall(opts[r], token)]
  /\ nFetch' = [nFetch EXCEPT ![r] = nFetch[r] + 1]
  /\ pc' = [pc EXCEPT ![r] = "fetch"]
  /\ UNCHANGED << env, now, token, tokenExpiresAt, opts, tok, outcome,
                  nLogin, atStart, loginRet, lastLogin, shapeVars >>

\* request() from the token to the resource fetch.
dispatch(r) ==
  /\ pc[r] = "ready"
  /\ wire' = [wire EXCEPT ![r] = ResourceCall(opts[r], tok[r])]
  /\ nFetch' = [nFetch EXCEPT ![r] = nFetch[r] + 1]
  /\ pc' = [pc EXCEPT ![r] = "fetch"]
  /\ UNCHANGED << env, now, token, tokenExpiresAt, opts, tok, outcome,
                  nLogin, atStart, loginRet, lastLogin, shapeVars >>

BinaryAccepts == {"application/pdf", "application/octet-stream"}

\* The response's content type is not looked at.
IncludesJson_Never(contentType) == FALSE

\* response.headers.get("content-type")?.includes("json"), on the content
\* types of the model (Null: the header is absent).
IncludesJson(contentType) ==
  contentType \in { Str("application/json"), Str("application/json; charset=utf-8") }

\* The bodies of the model: the text response.text() gives and the bytes
\* response.arrayBuffer() gives.
ResponseBodies ==
  { [text |-> "{\"a\":1}", bytes |-> <<123, 34, 97, 34, 58, 49, 125>>],
    [text |-> "fo",        bytes |-> <<102, 111>>],
    [text |-> "foo",       bytes |-> <<102, 111, 111>>],
    [text |-> "",          bytes |-> <<>>] }

\* status and ok of a response: ok is status in 200..299, and the pair
\* (202, not ok) is the one the client's tests feed it.
StatusLines ==
  { <<200, TRUE>>, <<202, TRUE>>, <<202, FALSE>>, <<404, FALSE>> }

ContentTypes == { Null, Str("application/json; charset=utf-8"), Str("text/plain") }

ApiResponses ==
  { [kind |-> "response", of |-> "resource", ok |-> sl[2], status |-> sl[1],
     contentType |-> ct,
     text |-> b.text, bytes |-> b.bytes] :
      sl \in StatusLines, ct \in ContentTypes, b \in ResponseBodies }

ApiError(resp) ==
  "Acube API error (" \o ToString(resp.status) \o "): " \o resp.text

\* The text branch without the exception for 202.
Interpret_No202(accept, resp) ==
  IF resp.kind = "reject"
  THEN Thrown("TypeError", "fetch failed", accept, resp)
  ELSE IF accept \in BinaryAccepts
  THEN IF ~resp.ok
       THEN Thrown("Error", ApiError(resp), accept, resp)
       ELSE Returned(resp.status, Str(Base64(resp.bytes)),
                     [t |-> "ArrayBuffer", v |-> resp.bytes], accept, resp)
  ELSE IF ~resp.ok
  THEN Thrown("Error", ApiError(resp), accept, resp)
  ELSE IF accept = "application/json" \/ IncludesJson(resp.contentType)
  THEN IF JSONparses(resp.text)
       THEN Returned(resp.status, JSONparse(resp.text), Undefined, accept, resp)
       ELSE Returned(resp.status, Str(resp.text), Undefined, accept, resp)
  ELSE Returned(resp.status, Str(resp.text), Undefined, accept, resp)

\* How request() interprets the response of the resource fetch.
Interpret(accept, resp) ==
  IF resp.kind = "reject"
  THEN Thrown("TypeError", "fetch failed", accept, resp)
  ELSE IF accept \in BinaryAccepts
  THEN IF ~resp.ok
       THEN Thrown("Error", ApiError(resp), accept, resp)
       ELSE Returned(resp.status, Str(Base64(resp.bytes)),
                     [t |-> "ArrayBuffer", v |-> resp.bytes], accept, resp)
  ELSE IF ~resp.ok /\ resp.status # 202
  THEN Thrown("Error", ApiError(resp), accept, resp)
  ELSE IF accept = "application/json" \/ IncludesJson(resp.contentType)
  THEN IF JSONparses(resp.text)
       THEN Returned(resp.status, JSONparse(resp.text), Undefined, accept, resp)
       ELSE Returned(resp.status, Str(resp.text), Undefined, accept, resp)
  ELSE Returned(resp.status, Str(resp.text), Undefined, accept, resp)

\* request() fetching once more after a failed resource call.
respond_Retry(r, resp) ==
  /\ pc[r] = "fetch"
  /\ IF Interpret(opts[r].accept, resp).kind = "error" /\ nFetch[r] < 2
     THEN /\ nFetch' = [nFetch EXCEPT ![r] = nFetch[r] + 1]
          /\ UNCHANGED << pc, outcome, opts, tok, wire, atStart, loginRet >>
     ELSE /\ Settle(r, Interpret(opts[r].accept, resp))
          /\ UNCHANGED nFetch
  /\ UNCHANGED << env, now, token, tokenExpiresAt, nLogin, lastLogin,
                  shapeVars >>

\* request() from the settling of the resource fetch to its own settling.
respond(r, resp) ==
  /\ pc[r] = "fetch"
  /\ Settle(r, Interpret(opts[r].accept, resp))
  /\ UNCHANGED << env, now, token, tokenExpiresAt, nLogin, nFetch, lastLogin,
                  shapeVars >>

\* The caller takes the result; the slot is free for its next call.
finish(r) ==
  /\ pc[r] = "done"
  /\ pc' = [pc EXCEPT ![r] = "idle"]
  /\ outcome' = [outcome EXCEPT ![r] = NoOutcome]
  /\ nLogin' = [nLogin EXCEPT ![r] = 0]
  /\ nFetch' = [nFetch EXCEPT ![r] = 0]
  /\ UNCHANGED << env, now, token, tokenExpiresAt, opts, tok, wire, atStart,
                  loginRet, lastLogin, shapeVars >>

\* The clock advances: by an hour short of the refresh window, or by the window.
TickSteps == {TTL - 1, TTL}
Tick(d) ==
  /\ now + d <= MaxNow
  /\ now' = now + d
  /\ UNCHANGED << env, token, tokenExpiresAt, pc, opts, tok, wire, outcome,
                  nLogin, nFetch, atStart, loginRet, lastLogin, shapeVars >>

(***************************************************************************)
(* The calls of the model.                                                 *)
(***************************************************************************)
get(r, path, options)        == request(r, "GET", path, options)
post(r, path, body, options) == request(r, "POST", path, [options EXCEPT !.body = body])
put(r, path, body, options)  == request(r, "PUT", path, [options EXCEPT !.body = body])
delete(r, path, options)     == request(r, "DELETE", path, options)

ExtraHeaders ==
  { NoHeaders,
    "Authorization" :> "Basic abc",
    "Accept" :> "text/html",
    "Content-Type" :> "application/xml",
    "Authorization" :> "Basic abc" @@ "Accept" :> "text/html"
       @@ "Content-Type" :> "application/xml" @@ "X-Custom-Header" :> "custom-value" }

Bodies ==
  { Undefined, Str("<Invoice/>"), Obj(<< <<"a", Num(1)>> >>), Num(0) }

Accepts ==
  { Undefined, Str("application/json"), Str("application/xml"),
    Str("application/pdf"), Str("application/octet-stream") }

\* The options object of a call that passes no body in it.
AllOptions ==
  { [service |-> s, body |-> Undefined, headers |-> h, accept |-> a] :
      s \in {Undefined, Str("common"), Str("govIt")},
      h \in {Undefined} \cup ExtraHeaders,
      a \in Accepts }

\* The options the callers pass: a service alone, or headers and an accept
\* type (both only when the headers name Accept too).
Options ==
  { o \in AllOptions :
      /\ o.service # Undefined => o.headers = Undefined /\ o.accept = Undefined
      /\ o.headers # Undefined /\ o.accept # Undefined => "Accept" \in DOMAIN o.headers }

\* The options of the calls that run concurrently.
FewOptions ==
  { o \in Options :
      /\ o.service = Undefined
      /\ o.headers \in {Undefined, "Authorization" :> "Basic abc"}
      /\ o.accept = Undefined }

FewBodies == {Undefined, Str("<Invoice/>")}

FewResponses ==
  { resp \in ApiResponses :
      /\ resp.status = 200
      /\ resp.contentType = Null
      /\ resp.text = "{\"a\":1}" }

Path == "/invoices"

Call(r, options, bodies) ==
  \/ \E o \in options : get(r, Path, o)
  \/ \E o \in options, b \in bodies : post(r, Path, b, o)
  \/ \E o \in FewOptions, b \in FewBodies : put(r, Path, b, o)
  \/ \E o \in FewOptions : delete(r, Path, o)

Step(r, responses) ==
  \/ \E resp \in {Rejected("login")} \cup LoginResponses : login(r, resp)
  \/ dispatch(r)
  \/ \E resp \in {Rejected("resource")} \cup responses : respond(r, resp)
  \/ finish(r)

\* One caller, its requests one after the other.
Next ==
  \/ Call("r1", Options, Bodies)
  \/ Step("r1", ApiResponses)
  \/ \E d \in TickSteps : Tick(d)

Spec == Init /\ [][Next]_vars

\* Two callers, their requests interleaved.
NextConc ==
  \/ \E r \in Reqs, o \in FewOptions : get(r, Path, o)
  \/ \E r \in Reqs : Step(r, FewResponses)
  \/ \E d \in TickSteps : Tick(d)

SpecConc == Init /\ [][NextConc]_vars

(***************************************************************************)
(* The response helpers (src/src/response.ts).                             *)
(*                                                                         *)
(* A field path is the sequence of its characters, so that indexOf and     *)
(* slice are what they are in the code; Text gives the string a key is.    *)
(* A function that can assign into its argument gives a record: `value`,   *)
(* what it returns, and `arg`, its argument as the call leaves it.         *)
(***************************************************************************)
RECURSIVE Text(_)
Text(chars) == IF chars = <<>> THEN "" ELSE Head(chars) \o Text(Tail(chars))

\* field.indexOf(ch): the 0-based place of the first ch, or -1.
indexOf(field, ch) ==
  IF \E i \in 1..Len(field) : field[i] = ch
  THEN (CHOOSE i \in 1..Len(field) :
          field[i] = ch /\ \A j \in 1..(i - 1) : field[j] # ch) - 1
  ELSE -1

\* field.slice(from, to): the characters at the 0-based places from..to-1.
slice(field, from, to) == SubSeq(field, from + 1, to)

\* key in record, for a record that is an object and a key that names no
\* member of Object.prototype (no key of the model does).
HasKey(record, key) == \E i \in 1..Len(record.v) : record.v[i][1] = key

\* record[key] = value: an existing key keeps its place, a new one is last.
SetProp(record, key, value) ==
  IF HasKey(record, key)
  THEN Obj([i \in 1..Len(record.v) |->
              IF record.v[i][1] = key THEN <<key, value>> ELSE record.v[i]])
  ELSE Obj(Append(record.v, <<key, value>>))

RECURSIVE AssignEntries(_, _)
AssignEntries(target, kvs) ==
  IF kvs = <<>> THEN target
  ELSE AssignEntries(SetProp(target, Head(kvs)[1], Head(kvs)[2]), Tail(kvs))

\* Object.assign(target, source): the source's own keys are set on the
\* target, one level deep (a source that is not an object has none here).
ObjectAssign(target, source) ==
  IF source.t = "object" THEN AssignEntries(target, source.v) ELSE target

RECURSIVE pickFields(_, _)
RECURSIVE PickLoop(_, _, _, _)

\* The loop of pickFields storing what a dotted path selects under the
\* whole path instead of under its top key.
RECURSIVE PickLoop_FieldKey(_, _, _, _)
PickLoop_FieldKey(record, result, shared, fields) ==
  IF fields = <<>> THEN [value |-> result, arg |-> record]
  ELSE
    LET field    == Head(fields)
        dotIndex == indexOf(field, ".")
    IN IF dotIndex = -1
       THEN IF HasKey(record, Text(field))
            THEN PickLoop_FieldKey(record,
                          SetProp(result, Text(field), GetProp(record, Text(field))),
                          shared \cup {Text(field)},
                          Tail(fields))
            ELSE PickLoop_FieldKey(record, result, shared, Tail(fields))
       ELSE
         LET topKey == Text(slice(field, 0, dotIndex))
             rest   == slice(field, dotIndex + 1, Len(field))
         IN IF HasKey(record, topKey)
            THEN PickLoop_FieldKey(record,
                          SetProp(result, Text(field),
                                  pickFields(GetProp(record, topKey), << rest >>).value),
                          shared,
                          Tail(fields))
            ELSE PickLoop_FieldKey(record, result, shared, Tail(fields))

\* The loop of pickFields over `fields`.  `shared` holds the keys k for
\* which result[k] is the very object record[k] (line 53 copies the
\* reference), so that an assignment into result[k] is one into record[k].
\* The recursive call of lines 61 and 64 has one path, takes the else
\* branch only and assigns into nothing.
PickLoop(record, result, shared, fields) ==
  IF fields = <<>> THEN [value |-> result, arg |-> record]
  ELSE
    LET field    == Head(fields)
        dotIndex == indexOf(field, ".")
    IN IF dotIndex = -1
       THEN IF HasKey(record, Text(field))
            THEN PickLoop(record,
                          SetProp(result, Text(field), GetProp(record, Text(field))),
                          shared \cup {Text(field)},
                          Tail(fields))
            ELSE PickLoop(record, result, shared, Tail(fields))
       ELSE
         LET topKey == Text(slice(field, 0, dotIndex))
             rest   == slice(field, dotIndex + 1, Len(field))
         IN IF HasKey(record, topKey)
            THEN LET existing == GetProp(result, topKey)
                     sub      == pickFields(GetProp(record, topKey), << rest >>).value
                 IN IF existing.t = "object"
                    THEN LET merged == ObjectAssign(existing, sub)
                         IN PickLoop(IF topKey \in shared
                                       THEN SetProp(record, topKey, merged)
                                       ELSE record,
                                     SetProp(result, topKey, merged),
                                     shared,
                                     Tail(fields))
                    ELSE PickLoop(record,
                                  SetProp(result, topKey, sub),
                                  shared \ {topKey},
                                  Tail(fields))
            ELSE PickLoop(record, result, shared, Tail(fields))

pickFields(data, fields) ==
  IF data.t \in {"null", "undefined"} THEN [value |-> data, arg |-> data]
  ELSE IF data.t = "array"
  THEN LET items == [i \in 1..Len(data.v) |-> pickFields(data.v[i], fields)]
       IN [ value |-> Arr([i \in 1..Len(data.v) |-> items[i].value]),
            arg   |-> Arr([i \in 1..Len(data.v) |-> items[i].arg]) ]
  ELSE IF data.t # "object" THEN [value |-> data, arg |-> data]
  ELSE PickLoop(data, Obj(<<>>), {}, fields)

RECURSIVE stripEmpty(_)
RECURSIVE StripEntries(_)

\* The loop of stripEmpty over Object.entries(record).
StripEntries(kvs) ==
  IF kvs = <<>> THEN <<>>
  ELSE LET stripped == stripEmpty(Head(kvs)[2])
       IN IF stripped.t # "undefined"
          THEN << <<Head(kvs)[1], stripped>> >> \o StripEntries(Tail(kvs))
          ELSE StripEntries(Tail(kvs))

\* stripEmpty dropping every falsy value (0, "" and false too).
stripEmpty_Falsy(x) ==
  IF ~Truthy(x) THEN Undefined
  ELSE IF x.t = "array"
  THEN Arr([i \in 1..Len(x.v) |-> stripEmpty(x.v[i])])
  ELSE IF x.t = "object"
  THEN LET result == StripEntries(x.v)
       IN IF Len(result) > 0 THEN Obj(result) ELSE Undefined
  ELSE x

\* stripEmpty leaving out the array elements that strip to absent.
stripEmpty_DropSlots(x) ==
  IF x.t \in {"null", "undefined"} THEN Undefined
  ELSE IF x.t = "array"
  THEN Arr(SelectSeq([i \in 1..Len(x.v) |-> stripEmpty(x.v[i])],
                     LAMBDA e : e.t # "undefined"))
  ELSE IF x.t = "object"
  THEN LET result == StripEntries(x.v)
       IN IF Len(result) > 0 THEN Obj(result) ELSE Undefined
  ELSE x

\* stripEmpty testing the keys of the record, not of the result, before it
\* returns an object.
stripEmpty_InputKeys(x) ==
  IF x.t \in {"null", "undefined"} THEN Undefined
  ELSE IF x.t = "array"
  THEN Arr([i \in 1..Len(x.v) |-> stripEmpty(x.v[i])])
  ELSE IF x.t = "object"
  THEN LET result == StripEntries(x.v)
       IN IF Len(x.v) > 0 THEN Obj(result) ELSE Undefined
  ELSE x

stripEmpty(x) ==
  IF x.t \in {"null", "undefined"} THEN Undefined
  ELSE IF x.t = "array"
  THEN Arr([i \in 1..Len(x.v) |-> stripEmpty(x.v[i])])
  ELSE IF x.t = "object"
  THEN LET result == StripEntries(x.v)
       IN IF Len(result) > 0 THEN Obj(result) ELSE Undefined
  ELSE x

\* x ?? d
Coalesce(x, d) == IF x.t \in {"null", "undefined"} THEN d ELSE x

\* formatResponse without the stripping pass.
formatResponse_NoStrip(x, fields) ==
  LET picked == IF fields.t = "array" /\ Len(fields.v) > 0
                THEN pickFields(x, fields.v)
                ELSE [value |-> x, arg |-> x]
      processed == Coalesce(picked.value, Null)
  IN [ value |-> [content |-> << [type |-> "text",
                                  text |-> JSONstringify(processed)] >>],
       arg   |-> picked.arg ]

\* formatResponse stripping before it projects.
formatResponse_StripFirst(x, fields) ==
  LET stripped == stripEmpty(x)
      picked == IF fields.t = "array" /\ Len(fields.v) > 0
                THEN pickFields(stripped, fields.v)
                ELSE [value |-> stripped, arg |-> x]
      processed == Coalesce(picked.value, Null)
  IN [ value |-> [content |-> << [type |-> "text",
                                  text |-> JSONstringify(processed)] >>],
       arg   |-> x ]

\* formatResponse(data, fields); `fields` is Undefined when it is omitted.
formatResponse(x, fields) ==
  LET picked == IF fields.t = "array" /\ Len(fields.v) > 0
                THEN pickFields(x, fields.v)
                ELSE [value |-> x, arg |-> x]
      processed == Coalesce(stripEmpty(picked.value), Null)
  IN [ value |-> [content |-> << [type |-> "text",
                                  text |-> JSONstringify(processed)] >>],
       arg   |-> picked.arg ]

\* new Error(message) and the runtime's exceptions, as thrown values.
ErrorOf(name, message) == [t |-> "Error", name |-> name, message |-> message]


(***************************************************************************)
(* The payload enricher (src/src/tools/invoices.ts).                       *)
(***************************************************************************)
\* How an evaluation completes: with a value, or with a thrown value.
Normal(value) == [kind |-> "return", value |-> value]
Abrupt(error) == [kind |-> "throw", error |-> error]

\* x?.[key]: undefined for null and undefined, and for a value without the
\* property.
OptProp(x, key) == IF x.t \in {"null", "undefined"} THEN Undefined ELSE GetProp(x, key)

\* x?.[0]: the first element of an array, the first character of a string.
OptFirst(x) ==
  IF x.t = "array" /\ Len(x.v) > 0 THEN x.v[1]
  ELSE IF x.t = "string" /\ Len(x.v) > 0 THEN Str(SubSeq(x.v, 1, 1))
  ELSE Undefined

\* enrichSingle reading the document off fattura_elettronica_body itself,
\* not off its first element.
enrichSingle_NoIndex(item) ==
  IF item.t \in {"null", "undefined"}
  THEN Abrupt(ErrorOf("TypeError",
         "Cannot read properties of " \o ToStr(item) \o " (reading 'payload')"))
  ELSE IF GetProp(item, "payload").t # "string" THEN Normal(item)
  ELSE IF ~JSONparses(GetProp(item, "payload").v) THEN Normal(item)
  ELSE
    LET parsed == JSONparse(GetProp(item, "payload").v)
        body   == OptProp(parsed, "fattura_elettronica_body")
        doc    == OptProp(OptProp(body, "dati_generali"), "dati_generali_documento")
    IN Normal(AssignEntries(item,
         << <<"payload", parsed>>,
            <<"invoice_number", Coalesce(OptProp(doc, "numero"), Null)>>,
            <<"invoice_date", Coalesce(OptProp(doc, "data"), Null)>>,
            <<"total_amount", Coalesce(OptProp(doc, "importo_totale_documento"), Null)>>,
            <<"currency", Coalesce(OptProp(doc, "divisa"), Null)>> >>))

\* enrichSingle giving the derived fields, all null, to an item whose
\* payload does not parse.
enrichSingle_NullOnFailure(item) ==
  IF item.t \in {"null", "undefined"}
  THEN Abrupt(ErrorOf("TypeError",
         "Cannot read properties of " \o ToStr(item) \o " (reading 'payload')"))
  ELSE IF GetProp(item, "payload").t # "string" THEN Normal(item)
  ELSE IF ~JSONparses(GetProp(item, "payload").v)
  THEN Normal(AssignEntries(item,
         << <<"invoice_number", Null>>, <<"invoice_date", Null>>,
            <<"total_amount", Null>>, <<"currency", Null>> >>))
  ELSE
    LET parsed == JSONparse(GetProp(item, "payload").v)
        body   == OptFirst(OptProp(parsed, "fattura_elettronica_body"))
        doc    == OptProp(OptProp(body, "dati_generali"), "dati_generali_documento")
    IN Normal(AssignEntries(item,
         << <<"payload", parsed>>,
            <<"invoice_number", Coalesce(OptProp(doc, "numero"), Null)>>,
            <<"invoice_date", Coalesce(OptProp(doc, "data"), Null)>>,
            <<"total_amount", Coalesce(OptProp(doc, "importo_totale_documento"), Null)>>,
            <<"currency", Coalesce(OptProp(doc, "divisa"), Null)>> >>))

\* enrichSingle(item).  Reading item.payload of null or undefined throws;
\* a payload that JSON.parse rejects is caught and the item returned.
enrichSingle(item) ==
  IF item.t \in {"null", "undefined"}
  THEN Abrupt(ErrorOf("TypeError",
         "Cannot read properties of " \o ToStr(item) \o " (reading 'payload')"))
  ELSE IF GetProp(item, "payload").t # "string" THEN Normal(item)
  ELSE IF ~JSONparses(GetProp(item, "payload").v) THEN Normal(item)
  ELSE
    LET parsed == JSONparse(GetProp(item, "payload").v)
        body   == OptFirst(OptProp(parsed, "fattura_elettronica_body"))
        doc    == OptProp(OptProp(body, "dati_generali"), "dati_generali_documento")
    IN Normal(AssignEntries(item,
         << <<"payload", parsed>>,
            <<"invoice_number", Coalesce(OptProp(doc, "numero"), Null)>>,
            <<"invoice_date", Coalesce(OptProp(doc, "data"), Null)>>,
            <<"total_amount", Coalesce(OptProp(doc, "importo_totale_documento"), Null)>>,
            <<"currency", Coalesce(OptProp(doc, "divisa"), Null)>> >>))

\* enrichInvoices(data): an array is mapped, and the first element that
\* throws ends the mapping.
enrichInvoices(x) ==
  IF x.t = "array"
  THEN LET items == [i \in 1..Len(x.v) |-> enrichSingle(x.v[i])]
       IN IF \E i \in 1..Len(x.v) : items[i].kind = "throw"
          THEN items[CHOOSE i \in 1..Len(x.v) :
                       /\ items[i].kind = "throw"
                       /\ \A j \in 1..(i - 1) : items[j].kind = "return"]
          ELSE Normal(Arr([i \in 1..Len(x.v) |-> items[i].value]))
  ELSE IF Truthy(x) /\ x.t = "object" THEN enrichSingle(x)
  ELSE Normal(x)

(***************************************************************************)
(* The tool boundary: the list_invoices handler (tools/invoices.ts).       *)
(*                                                                         *)
(* The handler awaits client.get; `settled` is how that call settled:      *)
(* resolved with { status, data } or rejected with a thrown value.         *)
(***************************************************************************)
Resolved(status, x) == [t |-> "resolved", status |-> status, data |-> x]
RejectedWith(error) == [t |-> "rejected", error |-> error]

\* The characters of a string.
Chars(str) == [i \in 1..Len(str) |-> SubSeq(str, i, i)]

LIST_INVOICES_DEFAULT_FIELDS ==
  << Chars("uuid"), Chars("created_at"), Chars("document_type"),
     Chars("marking"), Chars("notice"), Chars("invoice_number"),
     Chars("invoice_date"), Chars("total_amount"), Chars("currency"),
     Chars("sender.business_name"), Chars("sender.business_vat_number_code"),
     Chars("recipient.business_name"),
     Chars("recipient.business_vat_number_code"), Chars("notifications") >>

\* errorResponse(error)
errorResponse(error) ==
  [ isError |-> TRUE,
    content |-> << [type |-> "text",
                    text |-> IF error.t = "Error" THEN error.message
                                                  ELSE ToStr(error)] >> ]

\* The list_invoices handler without its try/catch.
list_invoices_NoCatch(fields, settled) ==
  IF settled.t = "rejected" THEN Abrupt(settled.error)
  ELSE
    LET enriched == enrichInvoices(settled.data)
        wantAll  == fields.t = "array" /\ Len(fields.v) = 1 /\ fields.v[1] = << "*" >>
        selectedFields == IF fields.t = "array" THEN fields.v
                                                ELSE LIST_INVOICES_DEFAULT_FIELDS
    IN IF enriched.kind = "throw" THEN Abrupt(enriched.error)
       ELSE Normal(formatResponse(
              IF wantAll THEN enriched.value
                         ELSE pickFields(enriched.value, selectedFields).value,
              Undefined).value)

\* The list_invoices handler from the settling of client.get on: what is
\* thrown inside the try block, by the client or by the enrichment, is
\* caught and given to errorResponse.
list_invoices(fields, settled) ==
  IF settled.t = "rejected" THEN Normal(errorResponse(settled.error))
  ELSE
    LET enriched == enrichInvoices(settled.data)
        wantAll  == fields.t = "array" /\ Len(fields.v) = 1 /\ fields.v[1] = << "*" >>
        selectedFields == IF fields.t = "array" THEN fields.v
                                                ELSE LIST_INVOICES_DEFAULT_FIELDS
    IN IF enriched.kind = "throw" THEN Normal(errorResponse(enriched.error))
       ELSE Normal(formatResponse(
              IF wantAll THEN enriched.value
                         ELSE pickFields(enriched.value, selectedFields).value,
              Undefined).value)

(***************************************************************************)
(* The list_invoices handler up to its call of client.get: the arguments   *)
(* as the schema parses them (lines 159-191) and the query (194-219).      *)
(***************************************************************************)
\* URLSearchParams.toString() of one name or value: the form-urlencoded
\* serializer keeps letters, digits and * - . _ , writes a space as + and
\* the other characters as their percent-encoded bytes (of those, the
\* names and values of the model hold [ and ] only).
RECURSIVE FormEncode(_)
FormEncode(s) ==
  IF Len(s) = 0 THEN ""
  ELSE IF Len(s) = 1
  THEN CASE s = "[" -> "%5B"
         [] s = "]" -> "%5D"
         [] s = " " -> "+"
         [] OTHER   -> s
  ELSE FormEncode(SubSeq(s, 1, Len(s) \div 2))
         \o FormEncode(SubSeq(s, Len(s) \div 2 + 1, Len(s)))

\* query.toString(): name=value pairs joined by &.
RECURSIVE QueryString(_)
QueryString(pairs) ==
  IF pairs = <<>> THEN ""
  ELSE FormEncode(Head(pairs)[1]) \o "=" \o FormEncode(Head(pairs)[2])
         \o (IF Len(pairs) > 1 THEN "&" ELSE "")
         \o QueryString(Tail(pairs))

\* if (params.p) query.set(name, params.p), for the <<p, name>> of a table.
RECURSIVE SetIfTruthy(_, _)
SetIfTruthy(params, table) ==
  IF table = <<>> THEN <<>>
  ELSE (IF Truthy(GetProp(params, Head(table)[1]))
        THEN << << Head(table)[2], ToStr(GetProp(params, Head(table)[1])) >> >>
        ELSE <<>>)
       \o SetIfTruthy(params, Tail(table))

\* if (params.p !== undefined) query.set(name, String(params.p))
RECURSIVE SetIfDefined(_, _)
SetIfDefined(params, table) ==
  IF table = <<>> THEN <<>>
  ELSE (IF GetProp(params, Head(table)[1]) # Undefined
        THEN << << Head(table)[2], ToStr(GetProp(params, Head(table)[1])) >> >>
        ELSE <<>>)
       \o SetIfDefined(params, Tail(table))

\* The schema of page and items_per_page applied to the arguments: an
\* absent argument takes its default, and an items_per_page outside 1..30
\* is refused (the handler is not called).
ListInvoicesSchema(args) ==
  LET page == Default(GetProp(args, "page"), Num(1))
      items_per_page == Default(GetProp(args, "items_per_page"), Num(10))
  IN IF items_per_page.v < 1 \/ items_per_page.v > 30
     THEN [valid |-> FALSE]
     ELSE [valid |-> TRUE,
           params |-> SetProp(SetProp(args, "page", page),
                              "items_per_page", items_per_page)]

\* The path the handler gives to client.get.
list_invoices_get(params) ==
  "/invoices?" \o QueryString(
    << << "page", ToStr(GetProp(params, "page")) >>,
       << "itemsPerPage", ToStr(GetProp(params, "items_per_page")) >> >>
    \o SetIfTruthy(params,
         << << "marking", "marking" >>,
            << "sender_name", "sender.business_name" >>,
            << "sender_vat", "sender.business_vat_number_code" >>,
            << "sender_fiscal_code", "sender.business_fiscal_code" >>,
            << "recipient_name", "recipient.business_name" >>,
            << "recipient_vat", "recipient.business_vat_number_code" >>,
            << "recipient_fiscal_code", "recipient.business_fiscal_code" >>,
            << "invoice_number", "invoice_number" >>,
            << "document_type", "document_type" >> >>)
    \o (IF Truthy(GetProp(params, "direction"))
        THEN << << "type", IF GetProp(params, "direction") = Str("outgoing")
                           THEN "0" ELSE "1" >> >>
        ELSE <<>>)
    \o SetIfTruthy(params,
         << << "invoice_date_from", "invoice_date[after]" >>,
            << "invoice_date_to", "invoice_date[before]" >>,
            << "created_at_from", "created_at[after]" >>,
            << "created_at_to", "created_at[before]" >>,
            << "order_by_date", "order[invoice_date]" >>,
            << "order_by_number", "order[invoice_number]" >> >>)
    \o SetIfDefined(params,
         << << "downloaded", "downloaded" >>,
            << "signed", "signed" >> >>))

(***************************************************************************)
(* The calls of the helpers: the arguments and the specification.          *)
(***************************************************************************)
\* A `fields` list has at most MaxFields paths.
MaxFields == 3

\* The paths of a `fields` list: s, s.a, s.a.b, s.a.c and u.
FieldPaths ==
  { << "s" >>,
    << "s", ".", "a" >>,
    << "s", ".", "a", ".", "b" >>,
    << "s", ".", "a", ".", "c" >>,
    << "u" >> }

FieldLists == UNION { [1..k -> FieldPaths] : k \in 0..MaxFields }

\* The values under s.a: objects with the keys b and c, null, a number and
\* an array with a null element.
AValues ==
  { Obj(<<>>),
    Obj(<< <<"b", Num(1)>> >>),
    Obj(<< <<"b", Null>> >>),
    Obj(<< <<"b", Num(1)>>, <<"c", Num(2)>> >>),
    Obj(<< <<"b", Num(1)>>, <<"c", Null>> >>),
    Obj(<< <<"b", Null>>, <<"c", Null>> >>),
    Null,
    Num(0),
    Arr(<< Num(1), Null, Num(2) >>) }

\* The values under s.
SValues ==
  { Obj(<< <<"a", a>> >>) : a \in AValues }
  \cup
  { Obj(<< <<"a", Obj(<< <<"b", Num(1)>>, <<"c", Num(2)>> >>)>>, <<"d", d>> >>) :
      d \in {Null, Num(3)} }
  \cup
  { Null, Str(""), Obj(<<>>),
    Arr(<< Obj(<< <<"a", Obj(<< <<"b", Num(1)>>, <<"c", Num(2)>> >>)>> >>) >>),
    Arr(<< Obj(<< <<"a", Num(1)>>, <<"d", Null>> >>), Null >>) }

\* The entities: objects with the keys s and u.
Entities ==
  { Obj(<< <<"s", sv>> >>) : sv \in SValues }
  \cup
  { Obj(<< <<"u", uv>>, <<"s", sv>> >>) :
      uv \in {Null, Bool(FALSE)},
      sv \in { Null, Obj(<< <<"a", Obj(<< <<"b", Num(1)>>, <<"c", Num(2)>> >>)>> >>) } }
  \cup
  { Obj(<<>>), Obj(<< <<"u", Null>> >>), Obj(<< <<"u", Num(0)>> >>) }

\* An invoice whose payload encodes the whole FatturaPA document.
Invoice ==
  Obj(<< <<"uuid", Str("u1")>>,
         <<"payload", Str(JsonTexts[
            Obj(<< <<"fattura_elettronica_body",
                     Arr(<< Obj(<< <<"dati_generali",
                                     Obj(<< <<"dati_generali_documento",
                                              Obj(<< <<"numero", Str("2026/1")>>,
                                                     <<"data", Str("2026-01-15")>>,
                                                     <<"importo_totale_documento", Num(500)>>,
                                                     <<"divisa", Str("EUR")>> >>)>> >>)>> >>)
                         >>)>> >>)])>> >>)

\* The entities with a payload: a string that encodes a document, with and
\* without other fields around it, a string that is not JSON, and payloads
\* that are not strings.
PayloadEntities ==
  { Obj(<< <<"uuid", Str("u1")>>, <<"payload", Str(JsonTexts[d])>> >>) :
      d \in PayloadDocs }
  \cup
  { Obj(<< <<"invoice_number", Str("old")>>,
           <<"payload", GetProp(Invoice, "payload")>>,
           <<"marking", Str("sent")>>, <<"notice", Null>> >>),
    Obj(<< <<"payload", Str("not-valid-json{{{")>> >>),
    Obj(<< <<"invoice_number", Str("old")>>,
           <<"payload", Str("not-valid-json{{{")>>, <<"currency", Null>> >>),
    Obj(<< <<"payload", Obj(<< <<"fattura_elettronica_body", Arr(<<>>)>> >>)>> >>),
    Obj(<< <<"uuid", Str("u1")>>, <<"payload", Null>> >>),
    Obj(<< <<"uuid", Str("u1")>>, <<"payload", Num(5)>> >>),
    Obj(<< <<"payload", Arr(<< Str("x") >>)>>, <<"total_amount", Num(1)>> >>) }

\* The `data` arguments: null, undefined, primitives, entities and arrays.
Values ==
  Entities
  \cup
  PayloadEntities
  \cup
  { Arr(<< Invoice, Obj(<< <<"payload", Str("not-valid-json{{{")>> >>), Num(1) >>),
    Arr(<< Invoice, Null >>) }
  \cup
  { Undefined, Null, Num(0), Str(""), Bool(FALSE),
    Obj(<< <<"a", Num(1)>>, <<"b", Null>>, <<"c", Obj(<< <<"d", Null>> >>)>> >>),
    Arr(<<>>),
    Arr(<< Num(1), Null, Num(2) >>),
    Arr(<< Arr(<< Null >>), Obj(<< <<"u", Null>> >>) >>),
    Arr(<< Obj(<< <<"s", Obj(<< <<"a", Obj(<< <<"b", Num(1)>>, <<"c", Num(2)>> >>)>> >>)>>,
                  <<"u", Num(7)>> >>),
           Obj(<< <<"u", Null>> >>),
           Null >>) }

\* The values with which the client's call rejects: the errors of login()
\* and request() for the responses of the client model, the TypeError of a
\* fetch that fails, the SyntaxError of a login body that is not JSON.
ClientFailures ==
  { ErrorOf("Error", LoginError(resp)) : resp \in { l \in LoginResponses : ~l.ok } }
  \cup
  { ErrorOf(o.name, o.message) :
      o \in { i \in { Interpret(a, resp) :
                        a \in {"application/json", "application/pdf"},
                        resp \in ApiResponses \cup {Rejected("resource")} } :
                i.kind = "error" } }
  \cup
  { ErrorOf("SyntaxError", "Unexpected token in JSON") }

\* The values with which the mocked client of the tests rejects, and other
\* values that are not Errors.
ForeignFailures ==
  { ErrorOf("Error", "Timeout"), Str("string error"), Num(42), Null, Undefined,
    Obj(<< <<"code", Num(1)>> >>) }

\* How client.get settles for the handler.
Settlements ==
  { Resolved(200, x) : x \in Values }
  \cup
  { RejectedWith(e) : e \in ClientFailures \cup ForeignFailures }

RECURSIVE WithArgs(_, _)
\* The objects with the keys of the list `named` (<<key, values>>), in the
\* list's order, a key left out where its value is undefined.
WithArgs(base, named) ==
  IF named = <<>> THEN {base}
  ELSE UNION { WithArgs(IF v = Undefined THEN base
                        ELSE SetProp(base, Head(named)[1], v), Tail(named)) :
               v \in Head(named)[2] }

\* The arguments of list_invoices: with and without a page and an
\* items_per_page (in and out of the schema's range) and some filters.
ListArguments ==
  WithArgs(Obj(<<>>),
    << << "page", {Undefined, Num(1), Num(5)} >>,
       << "items_per_page", {Undefined, Num(1), Num(30), Num(100)} >>,
       << "marking", {Undefined, Str("sent"), Str("")} >>,
       << "direction", {Undefined, Str("outgoing"), Str("incoming")} >>,
       << "invoice_date_from", {Undefined, Str("2026-01-01")} >>,
       << "downloaded", {Undefined, Bool(FALSE)} >> >>)

\* A helper is called on a value of the model, or the handler resumes with
\* a settlement of the client's call; `paths` is the `fields` argument or
\* parameter (a list, the list ["*"], or undefined: none given).
InitShape ==
  /\ Constructed
  /\ env = "sandbox"
  /\ op = "none"
  /\ input \in Values \cup Settlements \cup ListArguments
  /\ before = input
  /\ paths \in {Undefined, Arr(<< << "*" >> >>)} \cup { Arr(fs) : fs \in FieldLists }
  /\ input \in ListArguments \ Values => paths = Undefined
  /\ ret = Undefined

\* pickFields(input, paths)
CallPickFields ==
  /\ op = "none"
  /\ input \in Values
  /\ paths.t = "array"
  /\ LET r == pickFields(input, paths.v)
     IN /\ ret' = r.value
        /\ input' = r.arg
  /\ op' = "pickFields"
  /\ UNCHANGED << clientVars, paths, before >>

\* stripEmpty(input)
CallStripEmpty ==
  /\ op = "none"
  /\ input \in Values
  /\ paths = Undefined
  /\ ret' = stripEmpty(input)
  /\ op' = "stripEmpty"
  /\ UNCHANGED << clientVars, input, paths, before >>

\* formatResponse(input, paths), or formatResponse(input)
CallFormatResponse ==
  /\ op = "none"
  /\ input \in Values
  /\ LET r == formatResponse(input, paths)
     IN /\ ret' = r.value
        /\ input' = r.arg
  /\ op' = "formatResponse"
  /\ UNCHANGED << clientVars, paths, before >>

\* enrichInvoices(input)
CallEnrichInvoices ==
  /\ op = "none"
  /\ input \in Values
  /\ paths = Undefined
  /\ ret' = enrichInvoices(input)
  /\ op' = "enrichInvoices"
  /\ UNCHANGED << clientVars, input, paths, before >>

\* The list_invoices handler, resumed with the settlement `input` of its
\* client.get call, runs to its end.
CallListInvoices ==
  /\ op = "none"
  /\ input \in Settlements
  /\ ret' = list_invoices(paths, input)
  /\ op' = "list_invoices"
  /\ UNCHANGED << clientVars, input, paths, before >>

\* The list_invoices tool is called with the arguments `input`: the schema
\* is applied and the handler runs up to its call of client.get.
CallListInvoicesGet ==
  /\ op = "none"
  /\ input \in ListArguments
  /\ paths = Undefined
  /\ LET parsed == ListInvoicesSchema(input)
     IN ret' = IF parsed.valid
               THEN [kind |-> "get", path |-> list_invoices_get(parsed.params)]
               ELSE [kind |-> "invalid"]
  /\ op' = "list_invoices.get"
  /\ UNCHANGED << clientVars, input, paths, before >>

NextShape ==
  \/ CallListInvoicesGet
  \/ CallPickFields
  \/ CallStripEmpty
  \/ CallFormatResponse
  \/ CallEnrichInvoices
  \/ CallListInvoices

SpecShape == InitShape /\ [][NextShape]_vars

(***************************************************************************)
(* The claims.                                                             *)
(***************************************************************************)
InFlight(r) == pc[r] \in {"login", "ready", "fetch"}

\* The caller of r left Authorization to the client.
OwnAuthorization(r) == "Authorization" \notin DOMAIN opts[r].headers

\* r started inside the refresh window of the last successful login.
StartedInWindow(r) ==
  /\ atStart[r].login.at >= 0
  /\ atStart[r].t < atStart[r].login.at + TTL

\* r makes no login call and works with the token of the login it found.
UsesCachedLogin(r) ==
  /\ nLogin[r] = 0
  /\ pc[r] \in {"ready", "fetch"}
  /\ tok[r] = atStart[r].login.tok
  /\ pc[r] = "fetch" /\ OwnAuthorization(r) =>
       wire[r].headers["Authorization"] = "Bearer " \o ToStr(atStart[r].login.tok)

\* C1, as stated: for sequential requests, once a login has succeeded at
\* time t0, every request that starts at t < t0 + 23h makes no login call and
\* sends the token cached by that login.
C1_AsStated ==
  \A r \in Reqs : InFlight(r) /\ StartedInWindow(r) => UsesCachedLogin(r)

\* C1, amended: for sequential requests, once a login has succeeded at time
\* t0 and returned a non-empty token, every request that starts at
\* t < t0 + 23h makes no login call and works with the token cached by that
\* login, which it sends as Authorization unless the caller's extra-headers
\* replace that header.
C1_CachedTokenReused ==
  \A r \in Reqs :
    InFlight(r) /\ StartedInWindow(r) /\ Truthy(atStart[r].login.tok)
      => UsesCachedLogin(r)

\* A request that started an hour before the window of an earlier login
\* closed has dispatched its resource call with that login's token.
C1_Witness ==
  /\ pc["r1"] = "fetch"
  /\ StartedInWindow("r1")
  /\ atStart["r1"].t = atStart["r1"].login.at + TTL - 1
  /\ nLogin["r1"] = 0
  /\ OwnAuthorization("r1")
  /\ wire["r1"].headers["Authorization"] = "Bearer tok-B"

\* r started with no login ever made, or at or after the expiry of the last.
StartedStale(r) ==
  \/ atStart[r].login.at = -1
  \/ ~Truthy(atStart[r].login.tok)
  \/ atStart[r].t >= atStart[r].login.at + TTL

SettledOn(r, of) ==
  /\ pc[r] = "done"
  /\ outcome[r].resp.kind = "response"
  /\ outcome[r].resp.of = of

\* Acube API error (<status>): <body text>
ApiErrorText(status, text) ==
  "Acube API error (" \o ToString(status) \o "): " \o text

\* The value JSON.parse gives for the bodies of the model that are JSON;
\* the others are not JSON.
ParsedBody(text) ==
  IF text = "{\"a\":1}" THEN Obj(<< <<"a", Num(1)>> >>) ELSE Str(text)

\* C3: with a non-binary accept type the call succeeds iff the status is in
\* 200..299 or is 202 (also when the ok flag is false), and then returns the
\* body as data; for every other status it fails with
\* "Acube API error (<status>): <body text>" and returns no data.
C3_StatusDecidesSuccess ==
  \A r \in Reqs :
    SettledOn(r, "resource") /\ outcome[r].accept \notin BinaryAccepts =>
      LET resp == outcome[r].resp
          success == resp.status \in 200..299 \/ resp.status = 202
      IN /\ outcome[r].kind = "ok" <=> success
         /\ success =>
              /\ outcome[r].status = resp.status
              /\ outcome[r].data \in {Str(resp.text), ParsedBody(resp.text)}
         /\ ~success =>
              /\ outcome[r].kind = "error"
              /\ outcome[r].message = ApiErrorText(resp.status, resp.text)
              /\ "data" \notin DOMAIN outcome[r]

\* A 202 whose ok flag is false has been returned as data.
C3_Witness ==
  /\ SettledOn("r1", "resource")
  /\ outcome["r1"].accept = "application/xml"
  /\ outcome["r1"].resp.status = 202
  /\ ~outcome["r1"].resp.ok
  /\ outcome["r1"].kind = "ok"
  /\ outcome["r1"].data = Str("foo")

\* C4: if the login call returns a non-success status, the request that
\* triggered it fails with "Acube login failed (<status>): <body text>" and
\* dispatches no resource call: a request that dispatches one after a login
\* call has had that login succeed.
C4_LoginFailureEndsRequest ==
  \A r \in Reqs :
    /\ SettledOn(r, "login") /\ ~outcome[r].resp.ok =>
         /\ outcome[r].kind = "error"
         /\ outcome[r].message =
              "Acube login failed (" \o ToString(outcome[r].resp.status) \o "): "
                \o outcome[r].resp.text
         /\ nLogin[r] = 1
         /\ nFetch[r] = 0
    /\ nLogin[r] > 0 /\ (nFetch[r] > 0 \/ pc[r] \in {"ready", "fetch"}) =>
         /\ pc[r] # "done" => loginRet[r].at >= 0
         /\ pc[r] = "done" => outcome[r].resp.of = "resource"

\* A 401 login has ended its request with the login error and no resource call.
C4_Witness ==
  /\ SettledOn("r1", "login")
  /\ outcome["r1"].resp.status = 401
  /\ outcome["r1"].message = "Acube login failed (401): Invalid credentials"
  /\ nFetch["r1"] = 0

\* The response r settled on is a failure: a rejected fetch, a login that is
\* not ok, or a resource status outside 200..299.
FailedCall(r) ==
  /\ pc[r] = "done"
  /\ \/ outcome[r].resp.kind = "reject"
     \/ /\ outcome[r].resp.of = "login"
        /\ ~outcome[r].resp.ok
     \/ /\ outcome[r].resp.of = "resource"
        /\ outcome[r].resp.status \notin 200..299

\* C5: one invocation dispatches at most one login call and at most one
\* resource call, whatever their outcomes; a failed login, a failed resource
\* call or a transport failure is not attempted again and ends the
\* invocation with an error.
C5_NoRetry ==
  \A r \in Reqs :
    /\ nLogin[r] <= 1
    /\ nFetch[r] <= 1
    /\ FailedCall(r) => outcome[r].kind = "error"
    /\ pc[r] = "done" /\ outcome[r].resp.of = "login" => nFetch[r] = 0
    /\ pc[r] = "done" /\ outcome[r].resp.of = "resource" => nFetch[r] = 1

\* A resource call answered 404 has ended its request after one login call
\* and one resource call.
C5_Witness ==
  /\ SettledOn("r1", "resource")
  /\ FailedCall("r1")
  /\ outcome["r1"].resp.status = 404
  /\ nLogin["r1"] = 1
  /\ nFetch["r1"] = 1
  /\ outcome["r1"].kind = "error"

\* C6: extra-headers take precedence over the computed defaults: every header
\* the caller supplied is sent with the caller's value, Authorization and
\* Accept included, and a header the caller did not supply is sent as
\* Authorization = "Bearer <token>" and Accept = the accept option
\* (application/json when none is given).
C6_ExtraHeadersWin ==
  \A r \in Reqs :
    pc[r] = "fetch" =>
      LET given == atStart[r].given
          extra == IF given.headers = Undefined THEN NoHeaders ELSE given.headers
          sentH == wire[r].headers
      IN /\ \A h \in DOMAIN extra : h \in DOMAIN sentH /\ sentH[h] = extra[h]
         /\ "Authorization" \notin DOMAIN extra =>
              sentH["Authorization"] = "Bearer " \o ToStr(tok[r])
         /\ "Accept" \notin DOMAIN extra =>
              sentH["Accept"] = (IF given.accept = Undefined
                                 THEN "application/json" ELSE given.accept.v)

\* A request whose caller supplied Authorization and Accept, with another
\* accept option, has been dispatched with the caller's values.
C6_Witness ==
  /\ pc["r1"] = "fetch"
  /\ atStart["r1"].given.accept = Str("application/pdf")
  /\ tok["r1"] = Str("tok-A")
  /\ wire["r1"].headers["Authorization"] = "Basic abc"
  /\ wire["r1"].headers["Accept"] = "text/html"

\* C7: a request to which a body is supplied is dispatched with that body
\* (unchanged if it is a string, JSON-serialized otherwise) and a
\* Content-Type header (the caller's if supplied, else application/json); a
\* request with no body carries no body and no computed Content-Type.
C7_BodyAndContentType ==
  \A r \in Reqs :
    pc[r] = "fetch" =>
      LET given == atStart[r].given
          extra == IF given.headers = Undefined THEN NoHeaders ELSE given.headers
          sentH == wire[r].headers
      IN /\ given.body # Undefined =>
              /\ wire[r].body = (IF given.body.t = "string" THEN given.body
                                 ELSE Str(JSONstringify(given.body)))
              /\ "Content-Type" \in DOMAIN sentH
              /\ sentH["Content-Type"] =
                   (IF "Content-Type" \in DOMAIN extra THEN extra["Content-Type"]
                    ELSE "application/json")
         /\ given.body = Undefined =>
              /\ wire[r].body = Undefined
              /\ "Content-Type" \in DOMAIN sentH => "Content-Type" \in DOMAIN extra

\* C8: on a successful text-branch response, if accept is application/json or
\* the response Content-Type contains "json", data is the parsed JSON when
\* the body parses and the raw body text when it does not (never an error);
\* in every other case data is the raw body text.
C8_JsonOrRawText ==
  \A r \in Reqs :
    /\ SettledOn(r, "resource")
    /\ outcome[r].accept \notin BinaryAccepts
    /\ outcome[r].resp.status \in {200, 202}
    =>
      LET resp == outcome[r].resp
          wantsJson ==
            \/ outcome[r].accept = "application/json"
            \/ resp.contentType = Str("application/json; charset=utf-8")
      IN /\ outcome[r].kind = "ok"
         /\ outcome[r].data = (IF wantsJson THEN ParsedBody(resp.text)
                               ELSE Str(resp.text))

\* A JSON request answered 200 with a body that is not JSON has settled on
\* the raw text.
C8_Witness ==
  /\ SettledOn("r1", "resource")
  /\ outcome["r1"].accept = "application/json"
  /\ outcome["r1"].resp.contentType = Str("text/plain")
  /\ outcome["r1"].resp.text = "fo"
  /\ outcome["r1"].kind = "ok"
  /\ outcome["r1"].data = Str("fo")

\* The base64 text of the bodies of the model (RFC 4648).
ExpectedBase64(text) ==
  CASE text = "{\"a\":1}" -> "eyJhIjoxfQ=="
    [] text = "fo"        -> "Zm8="
    [] text = "foo"       -> "Zm9v"
    [] text = ""          -> ""

\* C9: with accept application/pdf or application/octet-stream, a successful
\* response returns data equal to the base64 encoding of the exact response
\* bytes, together with the raw byte buffer, and a non-success status fails
\* with "Acube API error (<status>): <body text>"; the raw byte buffer is in
\* a result only for these accept types.
C9_BinaryAsBase64 ==
  \A r \in Reqs :
    /\ SettledOn(r, "resource") /\ outcome[r].accept \in BinaryAccepts =>
         LET resp == outcome[r].resp IN
         /\ resp.ok =>
              /\ outcome[r].kind = "ok"
              /\ outcome[r].status = resp.status
              /\ outcome[r].data = Str(ExpectedBase64(resp.text))
              /\ outcome[r].raw = [t |-> "ArrayBuffer", v |-> resp.bytes]
         /\ ~resp.ok =>
              /\ outcome[r].kind = "error"
              /\ outcome[r].message = ApiErrorText(resp.status, resp.text)
    /\ pc[r] = "done" /\ outcome[r].kind = "ok"
         /\ outcome[r].accept \notin BinaryAccepts => outcome[r].raw = Undefined

\* A PDF request answered 200 with a two-byte body has settled on its base64
\* text and the buffer.
C9_Witness ==
  /\ SettledOn("r1", "resource")
  /\ outcome["r1"].accept = "application/pdf"
  /\ outcome["r1"].resp.bytes = <<102, 111>>
  /\ outcome["r1"].kind = "ok"
  /\ outcome["r1"].data = Str("Zm8=")
  /\ outcome["r1"].raw.v = <<102, 111>>

\* The base URLs, as the client's tests expect them.
ExpectedBaseUrl(e, service) ==
  CASE e = "sandbox" /\ service = "common" -> "https://common-sandbox.api.acubeapi.com"
    [] e = "sandbox" /\ service = "govIt" -> "https://api-sandbox.acubeapi.com"
    [] e = "production" /\ service = "common" -> "https://common.api.acubeapi.com"
    [] e = "production" /\ service = "govIt" -> "https://api.acubeapi.com"

\* C10: getBaseUrl gives a fixed, non-empty URL for each of the 4
\* (environment, service) pairs, all distinct; every resource request goes to
\* one of the two base URLs of the configured environment (the operations one
\* when no service is given), and every login goes to the authentication
\* base URL's /login path, whatever service the request selected.
C10_BaseUrls ==
  /\ \A service \in Services :
       /\ getBaseUrl(service) = ExpectedBaseUrl(env, service)
       /\ getBaseUrl(service) # ""
  /\ Cardinality({ BASE_URLS[e][service] : e \in Environments, service \in Services }) = 4
  /\ \A r \in Reqs :
       /\ pc[r] = "login" =>
            /\ wire[r].kind = "login"
            /\ wire[r].url = ExpectedBaseUrl(env, "common") \o "/login"
       /\ pc[r] = "fetch" =>
            LET given == atStart[r].given.service IN
            /\ wire[r].kind = "resource"
            /\ wire[r].url =
                 ExpectedBaseUrl(env, IF given = Undefined THEN "govIt" ELSE given.v)
                   \o Path
            /\ wire[r].url \in { ExpectedBaseUrl(env, service) \o Path : service \in Services }

\* In production, a request that names no service has logged in and gone to
\* the operations URL.
C10_Witness ==
  /\ env = "production"
  /\ pc["r1"] = "fetch"
  /\ nLogin["r1"] = 1
  /\ atStart["r1"].given.service = Undefined
  /\ wire["r1"].url = "https://api.acubeapi.com/invoices"


(***************************************************************************)
(* The claims about the response helpers.                                  *)
(***************************************************************************)
RECURSIVE Contains(_, _)
\* big holds all of small: every key of an object small is a key of big
\* with a value that holds small's, arrays element by element, and equal
\* values otherwise.
Contains(big, small) ==
  IF small.t = "object"
  THEN /\ big.t = "object"
       /\ \A i \in 1..Len(small.v) :
            /\ HasKey(big, small.v[i][1])
            /\ Contains(GetProp(big, small.v[i][1]), small.v[i][2])
  ELSE IF small.t = "array"
  THEN /\ big.t = "array"
       /\ Len(big.v) = Len(small.v)
       /\ \A i \in 1..Len(small.v) : Contains(big.v[i], small.v[i])
  ELSE big = small

\* What the path `field` alone selects of the object x.
Projection(x, field) == pickFields(x, << field >>).value

\* C11: pickFields merges the paths that share a top key: for an object x,
\* the result holds, under each top key, the projection of every requested
\* path that starts with it; a later path adds to what the earlier paths
\* selected and removes nothing of it, at any depth.
C11_PathsMerge ==
  op = "pickFields" /\ before.t = "object" =>
    \A i \in 1..Len(paths.v) : Contains(ret, Projection(before, paths.v[i]))

\* C12: pickFields is idempotent: for every value x (null, a primitive, an
\* object, an array, nested) and every path list,
\* pickFields(pickFields(x, paths), paths) equals pickFields(x, paths).
C12_PickIdempotent ==
  op = "pickFields" => pickFields(ret, paths.v).value = ret

\* Two paths under s.a were asked of an object that has both: the result
\* differs from the argument and is what pickFields gives again.
C12_Witness ==
  /\ op = "pickFields"
  /\ before = Obj(<< <<"s", Obj(<< <<"a", Obj(<< <<"b", Num(1)>>, <<"c", Num(2)>> >>)>>,
                                   <<"d", Num(3)>> >>)>> >>)
  /\ paths = Arr(<< << "s", ".", "a", ".", "b" >>, << "s", ".", "a", ".", "c" >> >>)
  /\ ret = Obj(<< <<"s", Obj(<< <<"a", Obj(<< <<"c", Num(2)>> >>)>> >>)>> >>)
  /\ pickFields(ret, paths.v).value = ret

\* The list ps with the path p put in after its first k paths.
InsertAt(ps, k, p) == SubSeq(ps, 1, k) \o << p >> \o SubSeq(ps, k + 1, Len(ps))

\* C13: a duplicate path is a no-op: for every value x, list ps and path p
\* that occurs in ps, another occurrence of p, put anywhere in the list,
\* leaves the result of pickFields as it is.
C13_DuplicatePathNoOp ==
  op = "pickFields" =>
    \A i \in 1..Len(paths.v), k \in 0..Len(paths.v) :
      pickFields(before, InsertAt(paths.v, k, paths.v[i])).value = ret

RECURSIVE Empty(_)
\* x is null or undefined, or an object all of whose values are Empty.
Empty(x) ==
  \/ x.t \in {"null", "undefined"}
  \/ x.t = "object" /\ \A i \in 1..Len(x.v) : Empty(x.v[i][2])

RECURSIVE Clean(_)
\* x has at no depth an object key with a null or absent value nor an
\* object without keys.
Clean(x) ==
  IF x.t = "object"
  THEN /\ Len(x.v) > 0
       /\ \A i \in 1..Len(x.v) :
            x.v[i][2].t \notin {"null", "undefined"} /\ Clean(x.v[i][2])
  ELSE IF x.t = "array"
  THEN \A i \in 1..Len(x.v) : Clean(x.v[i])
  ELSE TRUE

\* The entries of an object whose values are not Empty, in their order.
Kept(x) == SelectSeq(x.v, LAMBDA kv : ~Empty(kv[2]))

RECURSIVE Stripped(_, _)
\* r is x without its Empty parts: absent for an Empty x; an object with
\* x's other keys, in order, each stripped; an array of x's length, each
\* element stripped; x itself for a primitive.
Stripped(x, r) ==
  IF Empty(x) THEN r = Undefined
  ELSE IF x.t = "object"
  THEN /\ r.t = "object"
       /\ Len(r.v) = Len(Kept(x))
       /\ \A i \in 1..Len(r.v) :
            /\ r.v[i][1] = Kept(x)[i][1]
            /\ Stripped(Kept(x)[i][2], r.v[i][2])
  ELSE IF x.t = "array"
  THEN /\ r.t = "array"
       /\ Len(r.v) = Len(x.v)
       /\ \A i \in 1..Len(x.v) : Stripped(x.v[i], r.v[i])
  ELSE r = x

\* C14: stripEmpty(x) has at no depth an object key whose value is null or
\* absent and at no depth an object with zero keys: null-valued keys are
\* dropped, an object all of whose keys strip to absent is absent itself and
\* dropped from its parent, and nothing else is removed (0, "" and false
\* stay).
C14_StripsNullsAndEmptyObjects ==
  op = "stripEmpty" => Clean(ret) /\ Stripped(before, ret)

\* {a: 1, b: null, c: {d: null}} was stripped to {a: 1}.
C14_Witness ==
  /\ op = "stripEmpty"
  /\ before = Obj(<< <<"a", Num(1)>>, <<"b", Null>>, <<"c", Obj(<< <<"d", Null>> >>)>> >>)
  /\ ret = Obj(<< <<"a", Num(1)>> >>)

RECURSIVE HoldsArray(_)
\* x is an array or an object with an array at some depth.
HoldsArray(x) ==
  \/ x.t = "array"
  \/ x.t = "object" /\ \E i \in 1..Len(x.v) : HoldsArray(x.v[i][2])

RECURSIVE ArraysKept(_, _)
\* Every array of x, at any depth, is in r at its place with its length, and
\* its elements are x's elements, each stripped, in their order.
ArraysKept(x, r) ==
  IF x.t = "array"
  THEN /\ r.t = "array"
       /\ Len(r.v) = Len(x.v)
       /\ \A i \in 1..Len(x.v) :
            /\ r.v[i] = stripEmpty(x.v[i])
            /\ ArraysKept(x.v[i], r.v[i])
            /\ Empty(x.v[i]) =>
                 r.v[i] = Undefined /\ JSONstringify(Arr(<< r.v[i] >>)) = "[null]"
  ELSE IF x.t = "object"
  THEN \A i \in 1..Len(x.v) :
         HoldsArray(x.v[i][2]) =>
           /\ r.t = "object"
           /\ HasKey(r, x.v[i][1])
           /\ ArraysKept(x.v[i][2], GetProp(r, x.v[i][1]))
  ELSE TRUE

\* C15: stripEmpty never shortens an array: every array, at any depth, keeps
\* its length and the order of its elements, each element is stripped on
\* its own, and an element that strips to absent stays as a slot that
\* serializes as null.
C15_ArraysKeepLength ==
  op = "stripEmpty" => ArraysKept(before, ret)

\* [1, null, 2] was stripped to an array of three that serializes with a
\* null in the middle.
C15_Witness ==
  /\ op = "stripEmpty"
  /\ before = Arr(<< Num(1), Null, Num(2) >>)
  /\ ret = Arr(<< Num(1), Undefined, Num(2) >>)
  /\ JSONstringify(ret) = "[1,null,2]"

\* C16: stripEmpty is idempotent: stripEmpty(stripEmpty(x)) equals
\* stripEmpty(x) for every value x.
C16_StripIdempotent ==
  op = "stripEmpty" => stripEmpty(ret) = ret

\* An array of an array with a null and an object with only a null member
\* was stripped to slots, and stripping the result gives it again.
C16_Witness ==
  /\ op = "stripEmpty"
  /\ before = Arr(<< Arr(<< Null >>), Obj(<< <<"u", Null>> >>) >>)
  /\ ret = Arr(<< Arr(<< Undefined >>), Undefined >>)
  /\ stripEmpty(ret) = ret

\* text.includes(part)
Includes(text, part) ==
  \E i \in 1..(Len(text) - Len(part) + 1) :
    SubSeq(text, i, i + Len(part) - 1) = part

\* The text of the one item of a tool result.
TextOf(result) == result.content[1].text

Projected(x, fields) ==
  IF fields.t = "array" /\ Len(fields.v) > 0
  THEN pickFields(x, fields.v).value
  ELSE x

\* C18: formatResponse(data, fields) returns exactly one text item whose
\* text is the compact JSON of stripEmpty(pickFields(data, fields)), the
\* projection skipped when fields is omitted or empty and the literal null
\* taken when the stripped value is absent; so the text is JSON (never the
\* serialization of undefined) and no empty object that the projection
\* produced is in it.
C18_PickThenStripThenJson ==
  op = "formatResponse" =>
    LET stripped == stripEmpty(Projected(before, paths))
    IN /\ DOMAIN ret = {"content"}
       /\ Len(ret.content) = 1
       /\ ret.content[1].type = "text"
       /\ TextOf(ret) = IF stripped = Undefined THEN "null"
                                                ELSE JSONstringify(stripped)
       /\ TextOf(ret) # "undefined"
       /\ Clean(stripped)

\* The path s.a.c was asked of {s: {a: {b: 1}}}: the projection is
\* {s: {a: {}}}, which strips to nothing, and the text is null.
C18_Witness ==
  /\ op = "formatResponse"
  /\ before = Obj(<< <<"s", Obj(<< <<"a", Obj(<< <<"b", Num(1)>> >>)>> >>)>> >>)
  /\ paths = Arr(<< << "s", ".", "a", ".", "c" >> >>)
  /\ Projected(before, paths) = Obj(<< <<"s", Obj(<< <<"a", Obj(<<>>)>> >>)>> >>)
  /\ TextOf(ret) = "null"

(***************************************************************************)
(* The claims about the payload enricher and the tool boundary.            *)
(***************************************************************************)
\* The member k of x; undefined when x is no object or has no such key.
Member(x, k) ==
  IF x.t = "object" /\ HasKey(x, k) THEN GetProp(x, k) ELSE Undefined

\* fattura_elettronica_body[0].dati_generali.dati_generali_documento of a
\* parsed payload; undefined when a node of the chain is missing.
DocumentOf(parsed) ==
  LET feb  == Member(parsed, "fattura_elettronica_body")
      body == IF feb.t = "array" /\ Len(feb.v) > 0 THEN feb.v[1] ELSE Undefined
  IN Member(Member(body, "dati_generali"), "dati_generali_documento")

\* The derived fields and the members of the document they are read from.
DerivedFields ==
  { <<"invoice_number", "numero">>,
    <<"invoice_date", "data">>,
    <<"total_amount", "importo_totale_documento">>,
    <<"currency", "divisa">> }

\* The entity e has a payload string that is the text of a JSON document.
HasJsonPayload(e) ==
  /\ e.t = "object"
  /\ Member(e, "payload").t = "string"
  /\ \E d \in JsonDocs : JSONstringify(d) = Member(e, "payload").v

\* r is the entity e enriched: its payload is the document the payload
\* string of e encodes, each derived field is the member of
\* dati_generali_documento or null, and the other fields are those of e.
Enriched(e, r) ==
  /\ r.t = "object"
  /\ Member(r, "payload") \in JsonDocs
  /\ JSONstringify(Member(r, "payload")) = Member(e, "payload").v
  /\ \A f \in DerivedFields :
       /\ HasKey(r, f[1])
       /\ LET m == Member(DocumentOf(Member(r, "payload")), f[2])
          IN GetProp(r, f[1]) = IF m.t \in {"null", "undefined"} THEN Null ELSE m
  /\ \A i \in 1..Len(e.v) :
       e.v[i][1] \notin {"payload"} \cup { f[1] : f \in DerivedFields } =>
         Member(r, e.v[i][1]) = e.v[i][2]
  /\ \A j \in 1..Len(r.v) :
       \/ HasKey(e, r.v[j][1])
       \/ r.v[j][1] \in { f[1] : f \in DerivedFields }

\* C20: for every entity whose payload is a string that parses as JSON,
\* enrichment returns the entity with the parsed payload and with
\* invoice_number, invoice_date, total_amount and currency read from
\* fattura_elettronica_body[0].dati_generali.dati_generali_documento
\* (numero, data, importo_totale_documento, divisa); a derived field is null
\* when a node of the chain is missing, nothing is thrown for any parsed
\* shape, and every other top-level field is as it was.
C20_EnrichParsedPayload ==
  op = "enrichInvoices" =>
    /\ HasJsonPayload(before) =>
         ret.kind = "return" /\ Enriched(before, ret.value)
    /\ before.t = "array" /\ ret.kind = "return" =>
         \A i \in 1..Len(before.v) :
           HasJsonPayload(before.v[i]) => Enriched(before.v[i], ret.value.v[i])

\* An invoice whose payload encodes a whole document and that has an
\* invoice_number and other fields of its own was enriched.
C20_Witness ==
  /\ op = "enrichInvoices"
  /\ Member(before, "invoice_number") = Str("old")
  /\ HasJsonPayload(before)
  /\ ret.kind = "return"
  /\ Member(ret.value, "payload").t = "object"
  /\ Member(ret.value, "invoice_number") = Str("2026/1")
  /\ Member(ret.value, "invoice_date") = Str("2026-01-15")
  /\ Member(ret.value, "total_amount") = Num(500)
  /\ Member(ret.value, "currency") = Str("EUR")
  /\ Member(ret.value, "marking") = Str("sent")

\* C19: at the tool boundary, when the client's call fails (a login
\* failure, an API status failure, a transport failure, or any thrown
\* value) the tool returns a value with isError = true and exactly one text
\* item, whose text is the message of an Error and String(value) of any
\* other value; the failure is not thrown on and not given as a success.
C19_FailureBecomesErrorResult ==
  op = "list_invoices" /\ input.t = "rejected" =>
    /\ ret.kind = "return"
    /\ DOMAIN ret.value = {"isError", "content"}
    /\ ret.value.isError = TRUE
    /\ Len(ret.value.content) = 1
    /\ ret.value.content[1].type = "text"
    /\ TextOf(ret.value) = IF input.error.t = "Error"
                           THEN input.error.message
                           ELSE ToStr(input.error)

\* The client's call failed at the login with status 401 and the handler
\* returned the error result with the client's message.
C19_Witness ==
  /\ op = "list_invoices"
  /\ input = RejectedWith(ErrorOf("Error", "Acube login failed (401): Invalid credentials"))
  /\ ret = Normal([ isError |-> TRUE,
                    content |-> << [type |-> "text",
                                    text |-> "Acube login failed (401): Invalid credentials"] >> ])

\* C21: enrichment leaves an entity as it is (the same payload, no derived
\* field added or overwritten, nothing thrown) whenever its payload is not
\* a string (absent, an object, or of any other type) or is a string that
\* does not parse as JSON; so it does for such an entity of an array.
C21_UnparsedEntityUnchanged ==
  op = "enrichInvoices" =>
    /\ before.t = "object" /\ ~HasJsonPayload(before) =>
         ret = Normal(before) /\ input = before
    /\ before.t = "array" /\ ret.kind = "return" =>
         \A i \in 1..Len(before.v) :
           before.v[i].t = "object" /\ ~HasJsonPayload(before.v[i]) =>
             ret.value.v[i] = before.v[i]

\* An entity with an invoice_number of its own and a payload string that is
\* not JSON was returned as it was.
C21_Witness ==
  /\ op = "enrichInvoices"
  /\ Member(before, "payload") = Str("not-valid-json{{{")
  /\ Member(before, "invoice_number") = Str("old")
  /\ ~HasJsonPayload(before)
  /\ ret = Normal(before)

\* params.get(name) = value, for the query of the path given to client.get
\* (the text after the question mark; no name or value of the model needs
\* decoding).
HasParam(path, name, value) ==
  Includes("&" \o SubSeq(path, Len("/invoices?") + 1, Len(path)) \o "&",
           "&" \o name \o "=" \o value \o "&")

\* C22: list_invoices called without pagination arguments requests page=1
\* and itemsPerPage=30 from the upstream API, and a page or items_per_page
\* the caller supplies is passed on unchanged as page or itemsPerPage.
C22_Pagination ==
  op = "list_invoices.get" =>
    /\ ret.kind = "get"
    /\ HasParam(ret.path, "page",
                IF HasKey(before, "page")
                THEN ToString(GetProp(before, "page").v) ELSE "1")
    /\ HasParam(ret.path, "itemsPerPage",
                IF HasKey(before, "items_per_page")
                THEN ToString(GetProp(before, "items_per_page").v) ELSE "30")

(***************************************************************************)
(* The claims about concurrent requests and the token cache.               *)
(***************************************************************************)
\* r, having made its own login call, works with the token that login
\* returned and sends it, whatever the cache holds by now.
UsesOwnLogin(r) ==
  /\ tok[r] = loginRet[r].tok
  /\ pc[r] = "fetch" /\ OwnAuthorization(r) =>
       wire[r].headers["Authorization"] = "Bearer " \o ToStr(loginRet[r].tok)

\* The cache holds the token of the successful login that completed last.
CacheHoldsLastLogin ==
  lastLogin.at >= 0 =>
    /\ token = lastLogin.tok
    /\ \A r \in Reqs : loginRet[r].at <= lastLogin.at

\* C23, as stated: two requests that start while the cached token is absent
\* or expired may both log in; each request that logged in makes its
\* resource call with the token its own login returned, the cache holds
\* the token of the login that completed last, and every request that
\* starts later, within the window of that login, sends that token.
C23_AsStated ==
  /\ \A r \in Reqs : pc[r] \in {"ready", "fetch"} /\ nLogin[r] = 1 => UsesOwnLogin(r)
  /\ CacheHoldsLastLogin
  /\ \A r \in Reqs : InFlight(r) /\ StartedInWindow(r) => UsesCachedLogin(r)

\* C23, amended: as C23, the requests that start later sending the token
\* of the login that completed last when that token is not empty.
C23_LastLoginWins ==
  /\ \A r \in Reqs : pc[r] \in {"ready", "fetch"} /\ nLogin[r] = 1 => UsesOwnLogin(r)
  /\ CacheHoldsLastLogin
  /\ \A r \in Reqs :
       InFlight(r) /\ StartedInWindow(r) /\ Truthy(atStart[r].login.tok)
         => UsesCachedLogin(r)

\* Both requests started with nothing cached and both logged in: r1's
\* login returned tok-A, r2's completed last and returned tok-B, which the
\* cache holds, and each dispatched its resource call with its own token.
C23_Witness ==
  /\ \A r \in Reqs : pc[r] = "fetch" /\ nLogin[r] = 1 /\ atStart[r].login = NoLogin
                       /\ OwnAuthorization(r)
  /\ loginRet["r1"].tok = Str("tok-A")
  /\ loginRet["r2"].tok = Str("tok-B")
  /\ lastLogin = loginRet["r2"]
  /\ token = Str("tok-B")
  /\ wire["r1"].headers["Authorization"] = "Bearer tok-A"
  /\ wire["r2"].headers["Authorization"] = "Bearer tok-B"

\* The last successful login answered without a token field.
LoginGaveNoToken(l) == l.at >= 0 /\ l.tok = Undefined

\* r started inside the window of a login that gave no token.
StartedOnAbsentToken(r) ==
  InFlight(r) /\ StartedInWindow(r) /\ LoginGaveNoToken(atStart[r].login)

\* C24, as stated: if a login succeeds but its response carries no token
\* field, the client caches the absent token and uses it on the next
\* request within the refresh window: that request makes no login call and
\* sends an Authorization header built from the absent token.
C24_AsStated ==
  \A r \in Reqs :
    StartedOnAbsentToken(r) =>
      /\ nLogin[r] = 0
      /\ pc[r] = "fetch" /\ OwnAuthorization(r) =>
           wire[r].headers["Authorization"] = "Bearer undefined"

\* C24, amended: if a login succeeds but its response carries no token
\* field, the client caches the absent token with the expiry of a
\* successful login, and the request that made that login sends
\* "Bearer undefined"; the next request within the window does not use the
\* cached value: it makes one login call of its own and sends the token
\* that login returns.
C24_AbsentTokenNotReused ==
  /\ LoginGaveNoToken(lastLogin) =>
       token = Undefined /\ tokenExpiresAt = lastLogin.at + TTL
  /\ \A r \in Reqs :
       /\ pc[r] \in {"ready", "fetch"} /\ LoginGaveNoToken(loginRet[r]) =>
            /\ tok[r] = Undefined
            /\ pc[r] = "fetch" /\ OwnAuthorization(r) =>
                 wire[r].headers["Authorization"] = "Bearer undefined"
       /\ StartedOnAbsentToken(r) =>
            /\ nLogin[r] = 1
            /\ pc[r] \in {"ready", "fetch"} => UsesOwnLogin(r)

\* A request that started right after a login without a token, inside its
\* window, logged in again and dispatched its resource call with tok-A.
C24_Witness ==
  /\ pc["r1"] = "fetch"
  /\ atStart["r1"].login = [at |-> 0, tok |-> Undefined]
  /\ atStart["r1"].t = 0
  /\ nLogin["r1"] = 1
  /\ loginRet["r1"] = [at |-> 0, tok |-> Str("tok-A")]
  /\ OwnAuthorization("r1")
  /\ wire["r1"].headers["Authorization"] = "Bearer tok-A"

\* Nothing was ever cached, or the cache is what the successful login that
\* completed last wrote: its token, and its completion time plus 23h.
CacheWrittenTogether ==
  \/ lastLogin = NoLogin /\ token = Null /\ tokenExpiresAt = 0
  \/ lastLogin.at >= 0 /\ token = lastLogin.tok
       /\ tokenExpiresAt = lastLogin.at + TTL

\* A step that writes the token or the expiry is the completion of a
\* successful login, which writes the expiry as the clock plus 23h; a
\* login that completes with a failure writes neither.
CacheWrittenByLoginOnly ==
  /\ token' # token \/ tokenExpiresAt' # tokenExpiresAt =>
       /\ \E r \in Reqs : pc[r] = "login" /\ pc'[r] = "ready"
                           /\ tok'[r] = token'
       /\ tokenExpiresAt' = now + TTL
  /\ \A r \in Reqs :
       pc[r] = "login" /\ pc'[r] = "done" =>
         /\ outcome'[r].kind = "error"
         /\ token' = token /\ tokenExpiresAt' = tokenExpiresAt

\* C25: the cached token and its expiry are written only by a successful
\* login and always together: in every reachable state, under any
\* interleaving of concurrent requests, either nothing was ever cached
\* (token null, expiry 0) or the cached expiry is the completion time of
\* the login that supplied the cached token plus 23h; a login that fails
\* (a non-success status, a body that is not JSON, a rejected fetch) leaves
\* both fields as they were.
C25_TokenAndExpiryTogether ==
  []CacheWrittenTogether /\ [][CacheWrittenByLoginOnly]_vars

\* With tok-A cached at time 0, a request made at the expiry had its login
\* answered with a body that is not JSON while the other request was in
\* flight: the cache is still tok-A with the expiry 23.
C25_Witness ==
  /\ pc["r1"] = "done"
  /\ outcome["r1"].kind = "error"
  /\ outcome["r1"].name = "SyntaxError"
  /\ InFlight("r2")
  /\ now = TTL
  /\ lastLogin = [at |-> 0, tok |-> Str("tok-A")]
  /\ token = Str("tok-A")
  /\ tokenExpiresAt = TTL

\* The successful login whose token r works with: the last one completed
\* when r started, if r made no login call, and r's own otherwise.
TokenSource(r) == IF nLogin[r] = 0 THEN atStart[r].login ELSE loginRet[r]

\* The step is the dispatch of r's resource request with the client's own
\* Authorization header.
Dispatches(r) == pc[r] = "ready" /\ pc'[r] = "fetch" /\ OwnAuthorization(r)

\* C26, as stated: whenever the caller does not override Authorization,
\* every resource request is dispatched with a bearer token that a
\* successful login returned which completed less than 23h before the
\* dispatch, under any interleaving of concurrent requests and clock
\* advances: none is sent with a token that has expired for the cache.
C26_AsStated ==
  [][\A r \in Reqs :
       Dispatches(r) =>
         /\ TokenSource(r).at >= 0
         /\ wire'[r].headers["Authorization"] = "Bearer " \o ToStr(TokenSource(r).tok)
         /\ now < TokenSource(r).at + TTL]_vars

\* C26, amended: whenever the caller does not override Authorization,
\* every resource request is dispatched with the bearer token the request
\* obtained from getToken: a non-empty cached token of a successful login
\* that completed less than 23h before the request started, or the token
\* its own login returned, after the request started.  The expiry is
\* tested when the token is obtained, not at the dispatch.
C26_FreshWhenObtained ==
  [][\A r \in Reqs :
       Dispatches(r) =>
         /\ TokenSource(r).at >= 0
         /\ wire'[r].headers["Authorization"] = "Bearer " \o ToStr(TokenSource(r).tok)
         /\ nLogin[r] = 0 =>
              /\ Truthy(TokenSource(r).tok)
              /\ atStart[r].t < TokenSource(r).at + TTL
         /\ nLogin[r] = 1 =>
              /\ atStart[r].t <= TokenSource(r).at
              /\ TokenSource(r).at <= now]_vars

\* r1 took tok-A from the cache at time 0 and has dispatched its request
\* with it; the clock is at the expiry, where r2 has logged in anew and
\* the cache holds tok-B.
C26_Witness ==
  /\ pc["r1"] = "fetch"
  /\ nLogin["r1"] = 0
  /\ atStart["r1"].t = 0
  /\ atStart["r1"].login = [at |-> 0, tok |-> Str("tok-A")]
  /\ OwnAuthorization("r1")
  /\ wire["r1"].headers["Authorization"] = "Bearer tok-A"
  /\ now = TTL
  /\ loginRet["r2"] = [at |-> TTL, tok |-> Str("tok-B")]
  /\ token = Str("tok-B")

(***************************************************************************)
(* The claims about the frames of the helpers and the handler's fields.    *)
(***************************************************************************)
\* C27: pickFields never modifies its input: after pickFields(x, paths)
\* returns, x is structurally equal to its value before the call, for
\* every value x and every path list, also a list with a plain path and
\* dotted paths under the same top key.
C27_InputUnchanged ==
  op = "pickFields" => input = before

\* C28: enrichInvoices never raises: for every JSON value (an object, a
\* primitive, null, or an array whose elements may be objects, primitives
\* or null) it returns a value; the result for an array has the length of
\* the array, and every element without a string payload is returned as
\* it was.
C28_EnrichNeverRaises ==
  op = "enrichInvoices" =>
    /\ ret.kind = "return"
    /\ before.t = "array" =>
         /\ ret.value.t = "array"
         /\ Len(ret.value.v) = Len(before.v)
         /\ \A i \in 1..Len(before.v) :
              Member(before.v[i], "payload").t # "string" =>
                ret.value.v[i] = before.v[i]

(***************************************************************************)
(* The claim about the Accept header and the interpretation.               *)
(***************************************************************************)
\* The step is the settling of r on the answer to its resource request.
Responds(r) == pc[r] = "fetch" /\ pc'[r] = "done"

\* The caller of r left Accept to the client.
OwnAccept(r) == "Accept" \notin DOMAIN opts[r].headers

\* The Accept header of every dispatched request is its accept option.
AcceptSentIsOption ==
  \A r \in Reqs : pc[r] = "fetch" => wire[r].headers["Accept"] = opts[r].accept

\* The Accept header of every dispatched request is its accept option, or
\* the Accept of the caller's extra-headers when they name one.
AcceptSentIsOptionOrExtra ==
  \A r \in Reqs :
    pc[r] = "fetch" =>
      wire[r].headers["Accept"] =
        IF OwnAccept(r) THEN opts[r].accept ELSE opts[r].headers["Accept"]

\* C29, as stated: in every dispatched resource request the Accept header
\* sent is the accept type that chooses how the response is interpreted
\* (the binary or the text branch, and whether JSON parsing is tried): the
\* result is the interpretation of the response under the type sent.
C29_AsStated ==
  /\ []AcceptSentIsOption
  /\ [][\A r \in Reqs :
         Responds(r) =>
           /\ outcome'[r].accept = wire[r].headers["Accept"]
           /\ outcome'[r] = Interpret(wire[r].headers["Accept"], outcome'[r].resp)]_vars

\* C29, amended: in every dispatched resource request whose caller's
\* extra-headers name no Accept, the Accept header sent is the accept type
\* that chooses how the response is interpreted; an Accept among the
\* extra-headers is sent in its place, and the response is still
\* interpreted by the accept option.
C29_AcceptChoosesBranch ==
  /\ []AcceptSentIsOptionOrExtra
  /\ [][\A r \in Reqs :
         Responds(r) =>
           /\ outcome'[r].accept = opts[r].accept
           /\ outcome'[r] = Interpret(opts[r].accept, outcome'[r].resp)
           /\ OwnAccept(r) =>
                outcome'[r] = Interpret(wire[r].headers["Accept"], outcome'[r].resp)]_vars

\* A request for a PDF, with no Accept among the caller's extra-headers,
\* has been dispatched with Accept: application/pdf.
C29_Witness ==
  /\ pc["r1"] = "fetch"
  /\ atStart["r1"].given.accept = Str("application/pdf")
  /\ OwnAccept("r1")
  /\ wire["r1"].headers["Accept"] = "application/pdf"

\* C30: list_invoices treats an empty fields list like an omitted one: for
\* every upstream response, the output with fields = [] is the output with
\* fields omitted (the default compact view), as an empty list means no
\* projection to formatResponse.
C30_EmptyFieldsAsOmitted ==
  op = "list_invoices" /\ paths = Arr(<<>>) =>
    ret = list_invoices(Undefined, input)

=============================================================================
